---------------------------- MODULE Spec2Model ----------------------------
(***************************************************************************)
(* Paper discovery and relevance ranking of daily-paper-picks              *)
(* (src/arxiv_research.py, class ArxivResearcher).                         *)
(*                                                                         *)
(* Text is a sequence of one-character strings, so that lower(), strip(),  *)
(* split('/'), substring tests and the keyword regex are computed and not  *)
(* assumed.  The atom "CJK" stands for one CJK ideograph (a \w character   *)
(* that is not in [a-z]); the parser's placeholders are made of them.      *)
(* A relevance score is the exact rational [num, den] of the float the     *)
(* code computes.                                                          *)
(***************************************************************************)
EXTENDS Integers, Sequences, FiniteSets, TLC

VARIABLES
  pc,                  \* position of the caller inside search_papers_with_relevance
  topic,               \* argument topic
  max_results,         \* argument max_results
  strategy,            \* argument strategy
  min_relevance,       \* argument min_relevance, in hundredths
  strategies,          \* the strategies the for loop has still to try
  all_papers,          \* the working set (list of scored records)
  result,              \* the returned list
  calls,               \* every _execute_search invocation: [strategy, max_results]
  returned,            \* per invocation, the (id, score) pairs of the records it returned
  caught,              \* strategies whose exception the except clause logged
  last_exec,           \* outcome of the last _execute_search: [response, entries, papers]
  current_user_agent,  \* self.current_user_agent
  sc_paper,            \* scorer harness: the paper being scored
  sc_topic,            \* scorer harness: the topic
  sc_today,            \* scorer harness: datetime.now() as a day number
  sc_score,            \* scorer harness: the returned score, or NoScore
  cat_topic,           \* category lookup harness: the topic
  cat_result,          \* category lookup harness: the returned categories, or NoCats
  rp_stub,             \* repeated calls: the candidates the stubbed executor returns
  rp_args,             \* repeated calls: the arguments of every call
  rp_now,              \* repeated calls: datetime.now() as a day number
  rp_results,          \* repeated calls: per completed call, its day and its result
  lg_pc,               \* search_papers: position of the caller
  lg_topic,            \* search_papers: argument topic
  lg_max_results,      \* search_papers: argument max_results
  lg_sort_by,          \* search_papers: argument sort_by
  lg_queries,          \* search_papers: the requests it and _fallback_search sent
  lg_first,            \* search_papers: `papers` of the first attempt
  lg_result,           \* search_papers: the returned list
  cmp_topic,           \* scoring two papers: the topic
  cmp_papers,          \* scoring two papers: the two papers
  cmp_scores,          \* scoring two papers: their scores, or NoScore
  ua_pc,               \* concurrent callers: per thread, its position in _get_next_user_agent
  ua_read,             \* concurrent callers: per thread, the counter value it last read
  ua_left,             \* concurrent callers: per thread, the calls it has still to make
  ua_handed,           \* concurrent callers: the agents handed out, in the order taken
  ua_completed,        \* concurrent callers: the calls that have returned
  sch_pc,              \* run_scheduler: position in the `while True` loop
  sch_now,             \* run_scheduler: Beijing time, in seconds since the start of the window
  sch_next_run,        \* run_scheduler: next_run of the every-minute job
  sch_checks,          \* run_scheduler: the times at which check_and_run_task ran
  sch_triggered,       \* run_scheduler: the times at which scheduled_task was started
  oq_topic,            \* generate_optimized_query: argument topic
  oq_strategy,         \* generate_optimized_query: argument strategy
  oq_query,            \* generate_optimized_query: the returned query, or NoQuery
  kw_pc,               \* _extract_keywords: whether the call has returned
  kw_text,             \* _extract_keywords: argument text
  kw_tokens,           \* _extract_keywords: the returned list
  pl_pc,               \* process_and_send: position of the caller
  pl_papers,           \* process_and_send: the papers search_papers returned
  pl_results,          \* batch_download_pdfs: the results dictionary, in insertion order
  pl_succeeded,        \* batch_download_pdfs: ids for which download_paper_pdf returned success
  pl_successful,       \* process_and_send: successful_downloads
  dl_pc,               \* download_paper_pdf: position of the caller
  dl_retry,            \* download_paper_pdf: current_retry
  dl_file,             \* download_paper_pdf: the file at filepath in the data directory
  dl_returns           \* download_paper_pdf: per returned call, its success flag and the file it left

vars == <<pc, topic, max_results, strategy, min_relevance, strategies,
          all_papers, result, calls, returned, caught, last_exec,
          current_user_agent, sc_paper, sc_topic, sc_today, sc_score,
          cat_topic, cat_result, rp_stub, rp_args, rp_now, rp_results,
          lg_pc, lg_topic, lg_max_results, lg_sort_by, lg_queries, lg_first,
          lg_result, cmp_topic, cmp_papers, cmp_scores,
          ua_pc, ua_read, ua_left, ua_handed, ua_completed,
          sch_pc, sch_now, sch_next_run, sch_checks, sch_triggered,
          oq_topic, oq_strategy, oq_query,
          kw_pc, kw_text, kw_tokens,
          pl_pc, pl_papers, pl_results, pl_succeeded, pl_successful,
          dl_pc, dl_retry, dl_file, dl_returns>>

search_vars == <<pc, topic, max_results, strategy, min_relevance, strategies,
                 all_papers, result, calls, returned, caught, last_exec,
                 current_user_agent>>

score_vars == <<sc_paper, sc_topic, sc_today, sc_score>>

cat_vars == <<cat_topic, cat_result>>

rp_vars == <<rp_stub, rp_args, rp_now, rp_results>>

\* The variables of the harnesses other than the orchestrator's and the scorer's.
lg_vars == <<lg_pc, lg_topic, lg_max_results, lg_sort_by, lg_queries, lg_first, lg_result>>

cmp_vars == <<cmp_topic, cmp_papers, cmp_scores>>

ua_vars == <<ua_pc, ua_read, ua_left, ua_handed, ua_completed>>

sch_vars == <<sch_pc, sch_now, sch_next_run, sch_checks, sch_triggered>>

oq_vars == <<oq_topic, oq_strategy, oq_query>>

kw_vars == <<kw_pc, kw_text, kw_tokens>>

pl_vars == <<pl_pc, pl_papers, pl_results, pl_succeeded, pl_successful>>

dl_vars == <<dl_pc, dl_retry, dl_file, dl_returns>>

\* The variables of the harnesses of the query builder, the keyword
\* extractor and the PDF pipeline.
ext_vars == <<oq_vars, kw_vars, pl_vars, dl_vars>>

other_vars == <<cat_vars, rp_vars, lg_vars, cmp_vars, ua_vars, sch_vars, ext_vars>>

\* every variable but self.current_user_agent
search_vars_but_agent ==
  <<pc, topic, max_results, strategy, min_relevance, strategies,
    all_papers, result, calls, returned, caught, last_exec>>

-----------------------------------------------------------------------------
(* Characters and text                                                     *)

LowerLetters ==
  <<"a","b","c","d","e","f","g","h","i","j","k","l","m",
    "n","o","p","q","r","s","t","u","v","w","x","y","z">>

UpperLetters ==
  <<"A","B","C","D","E","F","G","H","I","J","K","L","M",
    "N","O","P","Q","R","S","T","U","V","W","X","Y","Z">>

Digits == {"0","1","2","3","4","5","6","7","8","9"}

Whitespace == {" ", "\t", "\n"}

Range(s) == {s[i] : i \in 1..Len(s)}

LowerSet == Range(LowerLetters)
UpperSet == Range(UpperLetters)
WordChars == LowerSet \cup UpperSet \cup Digits \cup {"_", "CJK"}

\* [a-z] of the keyword regex
IsLowerLetter(c) == c \in LowerSet

\* \w of a Python str pattern: letters, digits, underscore, ideographs
IsWordChar(c) == c \in WordChars

ToLower == [c \in UpperSet |-> LowerLetters[CHOOSE i \in 1..26 : UpperLetters[i] = c]]

\* str.lower() on one character
LowerChar(c) == IF c \in UpperSet THEN ToLower[c] ELSE c

\* str.lower()
\* the text without .lower()
LowerNone(text) == text

Lower(text) == [i \in 1..Len(text) |-> LowerChar(text[i])]

\* key in text  (substring test of Python's `in` on str)
Contains(text, key) ==
  \E i \in 0..(Len(text) - Len(key)) :
    \A j \in 1..Len(key) : text[i + j] = key[j]

\* str.strip()
RECURSIVE LStrip(_)
LStrip(text) ==
  IF text # <<>> /\ Head(text) \in Whitespace THEN LStrip(Tail(text)) ELSE text

RECURSIVE RStrip(_)
RStrip(text) ==
  IF text # <<>> /\ text[Len(text)] \in Whitespace
    THEN RStrip(SubSeq(text, 1, Len(text) - 1))
    ELSE text

Strip(text) == RStrip(LStrip(text))

\* re.sub(r'\s+', ' ', text)
RECURSIVE CollapseWhitespace(_)
CollapseWhitespace(text) ==
  IF text = <<>> THEN <<>>
  ELSE IF Head(text) \in Whitespace
    THEN <<" ">> \o CollapseWhitespace(LStrip(text))
    ELSE <<Head(text)>> \o CollapseWhitespace(Tail(text))

\* text.split('/')[-1]
RECURSIVE LastSegment(_)
LastSegment(text) ==
  IF \E i \in 1..Len(text) : text[i] = "/"
    THEN LastSegment(Tail(text))
    ELSE text

-----------------------------------------------------------------------------
(* Static tables of ArxivResearcher.__init__                               *)

stop_words ==
  {
    <<"t","h","e">>, <<"a">>, <<"a","n">>, <<"a","n","d">>,
    <<"o","r">>, <<"b","u","t">>, <<"i","n">>, <<"o","n">>,
    <<"a","t">>, <<"t","o">>, <<"f","o","r">>, <<"o","f">>,
    <<"w","i","t","h">>, <<"b","y">>, <<"i","s">>, <<"a","r","e">>,
    <<"w","a","s">>, <<"w","e","r","e">>, <<"b","e">>, <<"b","e","e","n">>,
    <<"b","e","i","n","g">>, <<"h","a","v","e">>, <<"h","a","s">>, <<"h","a","d">>,
    <<"d","o">>, <<"d","o","e","s">>, <<"d","i","d">>, <<"w","i","l","l">>,
    <<"w","o","u","l","d">>, <<"c","o","u","l","d">>, <<"s","h","o","u","l","d">>, <<"m","a","y">>,
    <<"m","i","g","h","t">>, <<"c","a","n">>, <<"t","h","i","s">>, <<"t","h","a","t">>,
    <<"t","h","e","s","e">>, <<"t","h","o","s","e">>, <<"w","e">>, <<"y","o","u">>,
    <<"h","e">>, <<"s","h","e">>, <<"i","t">>, <<"t","h","e","y">>,
    <<"t","h","e","m">>, <<"t","h","e","i","r">>, <<"o","u","r">>, <<"y","o","u","r">>,
    <<"h","i","s">>, <<"h","e","r">>, <<"i","t","s">>, <<"f","r","o","m">>,
    <<"i","n","t","o">>, <<"t","h","r","o","u","g","h">>, <<"d","u","r","i","n","g">>, <<"b","e","f","o","r","e">>,
    <<"a","f","t","e","r">>, <<"a","b","o","v","e">>, <<"b","e","l","o","w">>, <<"u","p">>,
    <<"d","o","w","n">>, <<"o","u","t">>, <<"o","f","f">>, <<"o","v","e","r">>,
    <<"u","n","d","e","r">>, <<"a","g","a","i","n">>, <<"f","u","r","t","h","e","r">>, <<"t","h","e","n">>,
    <<"o","n","c","e">>
  }

category_map ==
  <<
    [key |-> <<"m","a","c","h","i","n","e"," ","l","e","a","r","n","i","n","g">>,
     categories |-> <<"cs.LG", "stat.ML", "cs.AI">>],
    [key |-> <<"d","e","e","p"," ","l","e","a","r","n","i","n","g">>,
     categories |-> <<"cs.LG", "cs.AI", "cs.CV", "cs.CL">>],
    [key |-> <<"c","o","m","p","u","t","e","r"," ","v","i","s","i","o","n">>,
     categories |-> <<"cs.CV", "cs.AI", "cs.LG">>],
    [key |-> <<"n","a","t","u","r","a","l"," ","l","a","n","g","u","a","g","e"," ","p","r","o","c","e","s","s","i","n","g">>,
     categories |-> <<"cs.CL", "cs.AI", "cs.LG", "cs.IR">>],
    [key |-> <<"n","l","p">>,
     categories |-> <<"cs.CL", "cs.AI", "cs.LG">>],
    [key |-> <<"t","r","a","n","s","f","o","r","m","e","r">>,
     categories |-> <<"cs.CL", "cs.LG", "cs.AI">>],
    [key |-> <<"a","t","t","e","n","t","i","o","n">>,
     categories |-> <<"cs.CL", "cs.LG", "cs.AI">>],
    [key |-> <<"n","e","u","r","a","l"," ","n","e","t","w","o","r","k">>,
     categories |-> <<"cs.LG", "cs.AI", "cs.NE">>],
    [key |-> <<"r","e","i","n","f","o","r","c","e","m","e","n","t"," ","l","e","a","r","n","i","n","g">>,
     categories |-> <<"cs.LG", "cs.AI">>],
    [key |-> <<"r","o","b","o","t","i","c","s">>,
     categories |-> <<"cs.RO", "cs.AI", "cs.LG">>],
    [key |-> <<"o","p","t","i","m","i","z","a","t","i","o","n">>,
     categories |-> <<"math.OC", "cs.LG", "stat.ML">>],
    [key |-> <<"g","r","a","p","h"," ","n","e","u","r","a","l"," ","n","e","t","w","o","r","k">>,
     categories |-> <<"cs.LG", "cs.AI", "cs.SI">>],
    [key |-> <<"r","e","c","o","m","m","e","n","d","a","t","i","o","n">>,
     categories |-> <<"cs.IR", "cs.LG", "cs.AI">>],
    [key |-> <<"t","i","m","e"," ","s","e","r","i","e","s">>,
     categories |-> <<"stat.ML", "cs.LG", "econ.EM">>],
    [key |-> <<"g","e","n","e","r","a","t","i","v","e">>,
     categories |-> <<"cs.LG", "cs.AI", "cs.CV", "cs.CL">>],
    [key |-> <<"d","i","f","f","u","s","i","o","n">>,
     categories |-> <<"cs.LG", "cs.AI", "cs.CV">>],
    [key |-> <<"l","a","n","g","u","a","g","e"," ","m","o","d","e","l">>,
     categories |-> <<"cs.CL", "cs.AI", "cs.LG">>],
    [key |-> <<"m","u","l","t","i","m","o","d","a","l">>,
     categories |-> <<"cs.CV", "cs.CL", "cs.AI">>],
    [key |-> <<"s","e","l","f","-","s","u","p","e","r","v","i","s","e","d">>,
     categories |-> <<"cs.LG", "cs.CV", "cs.AI">>],
    [key |-> <<"f","e","d","e","r","a","t","e","d"," ","l","e","a","r","n","i","n","g">>,
     categories |-> <<"cs.LG", "cs.DC", "cs.AI">>],
    [key |-> <<"m","e","t","a"," ","l","e","a","r","n","i","n","g">>,
     categories |-> <<"cs.LG", "cs.AI">>],
    [key |-> <<"f","e","w"," ","s","h","o","t">>,
     categories |-> <<"cs.LG", "cs.AI", "cs.CV">>],
    [key |-> <<"z","e","r","o"," ","s","h","o","t">>,
     categories |-> <<"cs.LG", "cs.AI", "cs.CL">>],
    [key |-> <<"p","r","o","m","p","t">>,
     categories |-> <<"cs.CL", "cs.AI", "cs.LG">>],
    [key |-> <<"r","e","t","r","i","e","v","a","l">>,
     categories |-> <<"cs.IR", "cs.CL", "cs.AI">>],
    [key |-> <<"k","n","o","w","l","e","d","g","e"," ","g","r","a","p","h">>,
     categories |-> <<"cs.AI", "cs.DB", "cs.CL">>],
    [key |-> <<"e","x","p","l","a","i","n","a","b","l","e"," ","a","i">>,
     categories |-> <<"cs.AI", "cs.LG">>],
    [key |-> <<"a","d","v","e","r","s","a","r","i","a","l">>,
     categories |-> <<"cs.LG", "cs.AI", "cs.CV", "cs.CR">>],
    [key |-> <<"p","r","i","v","a","c","y">>,
     categories |-> <<"cs.CR", "cs.LG", "cs.AI">>],
    [key |-> <<"q","u","a","n","t","u","m">>,
     categories |-> <<"quant-ph", "cs.AI", "cs.LG">>],
    [key |-> <<"b","l","o","c","k","c","h","a","i","n">>,
     categories |-> <<"cs.CR", "cs.DC", "econ.GN">>],
    [key |-> <<"s","p","e","e","c","h">>,
     categories |-> <<"eess.AS", "cs.CL", "cs.SD">>],
    [key |-> <<"a","u","d","i","o">>,
     categories |-> <<"eess.AS", "cs.SD", "cs.AI">>],
    [key |-> <<"s","i","g","n","a","l"," ","p","r","o","c","e","s","s","i","n","g">>,
     categories |-> <<"eess.SP", "cs.LG">>],
    [key |-> <<"b","i","o","m","e","d","i","c","a","l">>,
     categories |-> <<"q-bio", "cs.AI", "cs.LG">>],
    [key |-> <<"m","e","d","i","c","a","l">>,
     categories |-> <<"q-bio.QM", "cs.AI", "cs.CV">>],
    [key |-> <<"f","i","n","a","n","c","e">>,
     categories |-> <<"q-fin", "cs.LG", "stat.ML">>],
    [key |-> <<"e","c","o","n","o","m","i","c","s">>,
     categories |-> <<"econ", "cs.GT", "q-fin">>]
  >>

-----------------------------------------------------------------------------
(* Keyword Extractor                                                       *)

\* The maximal runs of \w characters of text, left to right.
RECURSIVE WordRuns(_, _)
WordRuns(text, run) ==
  IF text = <<>>
    THEN IF run = <<>> THEN <<>> ELSE <<run>>
  ELSE IF IsWordChar(Head(text))
    THEN WordRuns(Tail(text), Append(run, Head(text)))
    ELSE (IF run = <<>> THEN <<>> ELSE <<run>>) \o WordRuns(Tail(text), <<>>)

\* the regex with {2,} in place of {3,}
FindAllWordsTwoLetters(text) ==
  SelectSeq(WordRuns(text, <<>>),
            LAMBDA run : Len(run) >= 2 /\ \A i \in 1..Len(run) : IsLowerLetter(run[i]))

\* re.findall(r'\b[a-z]{3,}\b', text): a match starts and ends at a \b, and
\* [a-z]{3,} cannot step over a \w character that is not in [a-z], so the
\* matches are the \w-runs made of three or more [a-z] characters only.
FindAllWords(text) ==
  SelectSeq(WordRuns(text, <<>>),
            LAMBDA run : Len(run) >= 3 /\ \A i \in 1..Len(run) : IsLowerLetter(run[i]))

_extract_keywords(text) ==
  SelectSeq(FindAllWords(Lower(text)), LAMBDA token : token \notin stop_words)

-----------------------------------------------------------------------------
(* Topic-to-category lookup                                                *)

DefaultCategories == {"cs.AI", "cs.LG", "cs.CL", "cs.CV"}

\* The lookup with `key == topic_lower` in place of `key in topic_lower`.
GetRelevantCategoriesWholeTopic(t) ==
  LET topic_lower == Lower(t)
      relevant_cats ==
        UNION {Range(category_map[i].categories) :
                 i \in {k \in 1..Len(category_map) : topic_lower = category_map[k].key}}
  IN  IF relevant_cats = {} THEN DefaultCategories ELSE relevant_cats

\* The set the code turns into a list; the order of that list is not used
\* by the scorer.
_get_relevant_categories(t) ==
  LET topic_lower == Lower(t)
      relevant_cats ==
        UNION {Range(category_map[i].categories) :
                 i \in {k \in 1..Len(category_map) : Contains(topic_lower, category_map[k].key)}}
  IN  IF relevant_cats = {} THEN DefaultCategories ELSE relevant_cats

-----------------------------------------------------------------------------
(* Query builder                                                           *)

synonym_map ==
  <<
    [key |-> <<"t","r","a","n","s","f","o","r","m","e","r">>,
     synonyms |-> <<
       <<"a","t","t","e","n","t","i","o","n">>,
       <<"b","e","r","t">>,
       <<"g","p","t">>,
       <<"e","n","c","o","d","e","r","-","d","e","c","o","d","e","r">>,
       <<"s","e","l","f","-","a","t","t","e","n","t","i","o","n">>
     >>],
    [key |-> <<"d","e","e","p"," ","l","e","a","r","n","i","n","g">>,
     synonyms |-> <<
       <<"n","e","u","r","a","l"," ","n","e","t","w","o","r","k">>,
       <<"d","e","e","p"," ","n","e","u","r","a","l">>,
       <<"a","r","t","i","f","i","c","i","a","l"," ","n","e","u","r","a","l">>,
       <<"d","e","e","p"," ","n","e","t">>
     >>],
    [key |-> <<"m","a","c","h","i","n","e"," ","l","e","a","r","n","i","n","g">>,
     synonyms |-> <<
       <<"m","l">>,
       <<"s","t","a","t","i","s","t","i","c","a","l"," ","l","e","a","r","n","i","n","g">>,
       <<"l","e","a","r","n","i","n","g"," ","a","l","g","o","r","i","t","h","m">>
     >>],
    [key |-> <<"c","o","m","p","u","t","e","r"," ","v","i","s","i","o","n">>,
     synonyms |-> <<
       <<"c","v">>,
       <<"i","m","a","g","e"," ","p","r","o","c","e","s","s","i","n","g">>,
       <<"v","i","s","u","a","l"," ","r","e","c","o","g","n","i","t","i","o","n">>,
       <<"i","m","a","g","e"," ","a","n","a","l","y","s","i","s">>
     >>],
    [key |-> <<"n","a","t","u","r","a","l"," ","l","a","n","g","u","a","g","e"," ","p","r","o","c","e","s","s","i","n","g">>,
     synonyms |-> <<
       <<"n","l","p">>,
       <<"t","e","x","t"," ","p","r","o","c","e","s","s","i","n","g">>,
       <<"l","a","n","g","u","a","g","e"," ","u","n","d","e","r","s","t","a","n","d","i","n","g">>,
       <<"t","e","x","t"," ","m","i","n","i","n","g">>
     >>],
    [key |-> <<"r","e","i","n","f","o","r","c","e","m","e","n","t"," ","l","e","a","r","n","i","n","g">>,
     synonyms |-> <<
       <<"r","l">>,
       <<"p","o","l","i","c","y"," ","g","r","a","d","i","e","n","t">>,
       <<"q","-","l","e","a","r","n","i","n","g">>,
       <<"a","c","t","o","r","-","c","r","i","t","i","c">>
     >>],
    [key |-> <<"g","e","n","e","r","a","t","i","v","e">>,
     synonyms |-> <<
       <<"g","a","n">>,
       <<"v","a","e">>,
       <<"d","i","f","f","u","s","i","o","n">>,
       <<"a","u","t","o","r","e","g","r","e","s","s","i","v","e">>,
       <<"g","e","n","e","r","a","t","i","o","n">>
     >>],
    [key |-> <<"o","p","t","i","m","i","z","a","t","i","o","n">>,
     synonyms |-> <<
       <<"g","r","a","d","i","e","n","t"," ","d","e","s","c","e","n","t">>,
       <<"a","d","a","m">>,
       <<"s","g","d">>,
       <<"t","r","a","i","n","i","n","g">>,
       <<"l","e","a","r","n","i","n","g"," ","r","a","t","e">>
     >>],
    [key |-> <<"a","t","t","e","n","t","i","o","n">>,
     synonyms |-> <<
       <<"s","e","l","f","-","a","t","t","e","n","t","i","o","n">>,
       <<"c","r","o","s","s","-","a","t","t","e","n","t","i","o","n">>,
       <<"m","u","l","t","i","-","h","e","a","d">>,
       <<"a","t","t","e","n","t","i","o","n"," ","m","e","c","h","a","n","i","s","m">>
     >>],
    [key |-> <<"c","l","a","s","s","i","f","i","c","a","t","i","o","n">>,
     synonyms |-> <<
       <<"c","a","t","e","g","o","r","i","z","a","t","i","o","n">>,
       <<"p","r","e","d","i","c","t","i","o","n">>,
       <<"r","e","c","o","g","n","i","t","i","o","n">>,
       <<"l","a","b","e","l","i","n","g">>
     >>],
    [key |-> <<"d","e","t","e","c","t","i","o","n">>,
     synonyms |-> <<
       <<"r","e","c","o","g","n","i","t","i","o","n">>,
       <<"i","d","e","n","t","i","f","i","c","a","t","i","o","n">>,
       <<"l","o","c","a","l","i","z","a","t","i","o","n">>,
       <<"f","i","n","d","i","n","g">>
     >>],
    [key |-> <<"s","e","g","m","e","n","t","a","t","i","o","n">>,
     synonyms |-> <<
       <<"p","a","r","s","i","n","g">>,
       <<"p","i","x","e","l","-","w","i","s","e">>,
       <<"s","e","m","a","n","t","i","c">>,
       <<"i","n","s","t","a","n","c","e">>
     >>],
    [key |-> <<"e","m","b","e","d","d","i","n","g">>,
     synonyms |-> <<
       <<"r","e","p","r","e","s","e","n","t","a","t","i","o","n">>,
       <<"e","n","c","o","d","i","n","g">>,
       <<"f","e","a","t","u","r","e">>,
       <<"v","e","c","t","o","r">>
     >>],
    [key |-> <<"p","r","e","t","r","a","i","n","i","n","g">>,
     synonyms |-> <<
       <<"p","r","e","-","t","r","a","i","n","i","n","g">>,
       <<"s","e","l","f","-","s","u","p","e","r","v","i","s","e","d">>,
       <<"u","n","s","u","p","e","r","v","i","s","e","d">>,
       <<"p","r","e","t","r","a","i","n">>
     >>],
    [key |-> <<"f","i","n","e","-","t","u","n","i","n","g">>,
     synonyms |-> <<
       <<"f","i","n","e","t","u","n","i","n","g">>,
       <<"a","d","a","p","t","a","t","i","o","n">>,
       <<"t","r","a","n","s","f","e","r"," ","l","e","a","r","n","i","n","g">>,
       <<"f","i","n","e","t","u","n","e">>
     >>],
    [key |-> <<"m","u","l","t","i","m","o","d","a","l">>,
     synonyms |-> <<
       <<"m","u","l","t","i","-","m","o","d","a","l">>,
       <<"c","r","o","s","s","-","m","o","d","a","l">>,
       <<"v","i","s","i","o","n","-","l","a","n","g","u","a","g","e">>,
       <<"m","u","l","t","i","m","e","d","i","a">>
     >>],
    [key |-> <<"f","e","w","-","s","h","o","t">>,
     synonyms |-> <<
       <<"f","e","w"," ","s","h","o","t">>,
       <<"k","-","s","h","o","t">>,
       <<"l","o","w","-","r","e","s","o","u","r","c","e">>,
       <<"l","o","w","-","d","a","t","a">>
     >>],
    [key |-> <<"z","e","r","o","-","s","h","o","t">>,
     synonyms |-> <<
       <<"z","e","r","o"," ","s","h","o","t">>,
       <<"u","n","s","e","e","n">>,
       <<"g","e","n","e","r","a","l","i","z","a","t","i","o","n">>,
       <<"t","r","a","n","s","f","e","r">>
     >>],
    [key |-> <<"g","r","a","p","h">>,
     synonyms |-> <<
       <<"n","e","t","w","o","r","k">>,
       <<"n","o","d","e">>,
       <<"e","d","g","e">>,
       <<"t","o","p","o","l","o","g","y">>
     >>],
    [key |-> <<"n","e","u","r","a","l">>,
     synonyms |-> <<
       <<"n","e","t","w","o","r","k">>,
       <<"n","e","t">>,
       <<"l","a","y","e","r">>,
       <<"n","e","u","r","o","n">>
     >>],
    [key |-> <<"c","o","n","v","o","l","u","t","i","o","n","a","l">>,
     synonyms |-> <<
       <<"c","n","n">>,
       <<"c","o","n","v">>,
       <<"c","o","n","v","n","e","t">>,
       <<"c","o","n","v","o","l","u","t","i","o","n">>
     >>],
    [key |-> <<"r","e","c","u","r","r","e","n","t">>,
     synonyms |-> <<
       <<"r","n","n">>,
       <<"l","s","t","m">>,
       <<"g","r","u">>,
       <<"s","e","q","u","e","n","c","e">>
     >>],
    [key |-> <<"a","d","v","e","r","s","a","r","i","a","l">>,
     synonyms |-> <<
       <<"g","a","n">>,
       <<"a","t","t","a","c","k">>,
       <<"r","o","b","u","s","t">>,
       <<"d","e","f","e","n","s","e">>
     >>]
  >>

\* str.split(): the maximal runs of non-whitespace characters
RECURSIVE Split(_, _)
Split(text, run) ==
  IF text = <<>>
    THEN IF run = <<>> THEN <<>> ELSE <<run>>
  ELSE IF Head(text) \notin Whitespace
    THEN Split(Tail(text), Append(run, Head(text)))
    ELSE (IF run = <<>> THEN <<>> ELSE <<run>>) \o Split(Tail(text), <<>>)

\* The set of terms: the topic, the synonyms and the key of every
\* synonym_map key found in the lower-cased topic, and the topic's keywords.
_expand_query_terms(t) ==
  LET topic_lower == Lower(t)
      matched == {k \in 1..Len(synonym_map) : Contains(topic_lower, synonym_map[k].key)}
  IN  {t}
        \cup UNION {Range(synonym_map[k].synonyms) \cup {synonym_map[k].key} : k \in matched}
        \cup Range(_extract_keywords(t))

TitleWordLimit == 3     \* len(topic_clean.split()) <= 3
MainTermsLimit == 5     \* list(expanded_terms)[:5]
TermLengthOver == 3     \* len(term) > 3
CategoryLimit == 3      \* relevant_cats[:3]

\* list(s)[:n] of a set s of strings: the iteration order of the set follows
\* the strings' hashes, which change with the interpreter's hash seed, so the
\* slice is any n distinct members in any order.
ListSlice(s, n) ==
  LET k == IF Cardinality(s) < n THEN Cardinality(s) ELSE n
  IN  {l \in [1..k -> s] : \A i, j \in 1..k : i # j => l[i] # l[j]}

\* A query is kept as the list of its clauses and the text that joins them:
\* the returned string is the join of the clauses' texts.  A clause names its
\* field and carries its quoted phrases (terms) or its categories (cats).
Clause(field, terms, cats) == [field |-> field, terms |-> terms, cats |-> cats]

Query(joiner, parts) == [joiner |-> joiner, parts |-> parts]

\* the title clause appended for every topic
TitleClauseAlways(topic_clean) == <<Clause("ti", <<topic_clean>>, <<>>)>>

\* lines 198-200
TitleClause(topic_clean) ==
  IF Len(Split(topic_clean, <<>>)) <= TitleWordLimit
    THEN <<Clause("ti", <<topic_clean>>, <<>>)>>
    ELSE <<>>

\* the abstract clause built from every term of the slice
AbstractClauseAnyLength(main_terms) ==
  IF main_terms # <<>> THEN <<Clause("abs", main_terms, <<>>)>> ELSE <<>>

\* lines 203-206
AbstractClause(main_terms) ==
  LET abs_queries == SelectSeq(main_terms, LAMBDA term : Len(term) > TermLengthOver)
  IN  IF abs_queries # <<>> THEN <<Clause("abs", abs_queries, <<>>)>> ELSE <<>>

\* the category clause dropped
CategoryClauseNever(cats) == <<>>

\* lines 209-211
CategoryClause(cats) ==
  IF cats # <<>> THEN <<Clause("cat", <<>>, cats)>> ELSE <<>>

\* generate_optimized_query(topic, strategy), given the two list slices the
\* comprehensive branch takes (main_terms of the expanded terms, cats of the
\* relevant categories).
generate_optimized_query(t, s, main_terms, cats) ==
  LET topic_clean == Strip(t)
      query_parts ==
        TitleClause(topic_clean) \o AbstractClause(main_terms) \o CategoryClause(cats)
  IN  IF s = "precise"
        THEN Query("", <<Clause("ti", <<topic_clean>>, <<>>)>>)
      ELSE IF s = "comprehensive"
        THEN IF Len(query_parts) > 1 THEN Query(" AND ", query_parts)
             ELSE IF query_parts # <<>> THEN Query("", query_parts)
             ELSE Query("", <<Clause("all", <<topic_clean>>, <<>>)>>)
      ELSE Query(" OR ", <<Clause("ti", <<topic_clean>>, <<>>),
                           Clause("abs", <<topic_clean>>, <<>>)>>)

-----------------------------------------------------------------------------
(* datetime.strptime(text[:10], '%Y-%m-%d') and the day arithmetic         *)

DigitSeq == <<"0","1","2","3","4","5","6","7","8","9">>

DigitVal(c) == (CHOOSE i \in 1..10 : DigitSeq[i] = c) - 1

AllDigits(s) == \A i \in 1..Len(s) : s[i] \in Digits

RECURSIVE Number(_)
Number(s) == IF s = <<>> THEN 0 ELSE 10 * Number(SubSeq(s, 1, Len(s) - 1)) + DigitVal(s[Len(s)])

\* text.split('-')
RECURSIVE SplitDash(_, _)
SplitDash(text, part) ==
  IF text = <<>> THEN <<part>>
  ELSE IF Head(text) = "-" THEN <<part>> \o SplitDash(Tail(text), <<>>)
  ELSE SplitDash(Tail(text), Append(part, Head(text)))

IsLeap(y) == (y % 4 = 0 /\ y % 100 # 0) \/ y % 400 = 0

DaysInMonth(y, m) ==
  IF m = 2 THEN (IF IsLeap(y) THEN 29 ELSE 28)
  ELSE IF m \in {4, 6, 9, 11} THEN 30 ELSE 31

RECURSIVE DaysBeforeMonth(_, _)
DaysBeforeMonth(y, m) == IF m = 1 THEN 0 ELSE DaysBeforeMonth(y, m - 1) + DaysInMonth(y, m - 1)

\* date.toordinal()
Ordinal(y, m, d) ==
  LET p == y - 1
  IN  365 * p + (p \div 4) - (p \div 100) + (p \div 400) + DaysBeforeMonth(y, m) + d

\* %m is 1[0-2]|0[1-9]|[1-9]; %d is 3[01]|[12]\d|0[1-9]|[1-9]| [1-9]
MonthField(s) ==
  /\ Len(s) \in {1, 2} /\ AllDigits(s)
  /\ Number(s) \in 1..12
DayField(s) ==
  \/ Len(s) \in {1, 2} /\ AllDigits(s) /\ Number(s) \in 1..31
  \/ Len(s) = 2 /\ s[1] = " " /\ s[2] \in Digits /\ Number(<<s[2]>>) \in 1..9

DayNumber(s) == IF s[1] = " " THEN Number(<<s[2]>>) ELSE Number(s)

NoDate == -1

\* The day number of the date, or NoDate where strptime raises ValueError.
Strptime(text) ==
  LET parts == SplitDash(text, <<>>)
  IN  IF /\ Len(parts) = 3
         /\ Len(parts[1]) = 4 /\ AllDigits(parts[1]) /\ Number(parts[1]) >= 1
         /\ MonthField(parts[2])
         /\ DayField(parts[3])
         /\ DayNumber(parts[3]) <= DaysInMonth(Number(parts[1]), Number(parts[2]))
        THEN Ordinal(Number(parts[1]), Number(parts[2]), DayNumber(parts[3]))
        ELSE NoDate

\* text[:10]
First10(text) == SubSeq(text, 1, IF Len(text) < 10 THEN Len(text) ELSE 10)

-----------------------------------------------------------------------------
(* Relevance Scorer                                                        *)

\* `1 - days_old / 365` without max(0, ...)
MaxSecond(a, b) == b

Max(a, b) == IF a >= b THEN a ELSE b
Min(a, b) == IF a <= b THEN a ELSE b

\* `return score` without the clamp
ClampNone(num, den) == num

\* min(score, 1.0)
Clamp(num, den) == Min(num, den)

\* days_old / 365 is taken in 365ths, the four weights in tenths
DaysPerYear == 365

\* score for (paper, topic) when datetime.now() falls on day `today`:
\* the exact value num/den of the weighted sum, den = 10 * 365 * |K| * |R|.
_calculate_relevance_score(paper, t, today) ==
  LET topic_keywords   == Range(_extract_keywords(t))
      title_keywords   == Range(_extract_keywords(paper.title))
      summary_keywords == Range(_extract_keywords(paper.summary))
      paper_cats       == Range(paper.categories)
      relevant_cats    == _get_relevant_categories(t)
      K                == Cardinality(topic_keywords)
      R                == Cardinality(relevant_cats)
      title_overlap    == Cardinality(topic_keywords \cap title_keywords)
      summary_overlap  == Cardinality(topic_keywords \cap summary_keywords)
      cat_overlap      == Cardinality(paper_cats \cap relevant_cats)
      pub_date         == Strptime(First10(paper.published))
      days_old         == today - pub_date
      time_score       == IF pub_date = NoDate THEN 0 ELSE Max(0, DaysPerYear - days_old)
      den              == 10 * DaysPerYear * K * R
      num              == 4 * title_overlap * DaysPerYear * R
                          + 3 * summary_overlap * DaysPerYear * R
                          + 2 * cat_overlap * DaysPerYear * K
                          + time_score * K * R
  IN  IF topic_keywords = {}
        THEN [num |-> 1, den |-> 2]
        ELSE [num |-> Clamp(num, den), den |-> den]

\* a >= b on scores
ScoreGE(a, b) == a.num * b.den >= b.num * a.den

-----------------------------------------------------------------------------
(* Entries of an API response and _parse_paper_entry                       *)

\* entry.find(...) returns None (present = FALSE), or an Element with a text
\* (None, has_text = FALSE, or a string) and `kids` child elements.
Absent == [present |-> FALSE, has_text |-> FALSE, text |-> <<>>, kids |-> 0]
Elem(text) == [present |-> TRUE, has_text |-> TRUE, text |-> text, kids |-> 0]
EmptyElem == [present |-> TRUE, has_text |-> FALSE, text |-> <<>>, kids |-> 0]
ElemWithKids(text) == [present |-> TRUE, has_text |-> TRUE, text |-> text, kids |-> 1]

\* `elem is not None and elem.text`
HasText(elem) == elem.present /\ elem.has_text /\ elem.text # <<>>

\* `elem and elem.text`: the truth value of an Element is len(elem) != 0
TruthyWithText(elem) == elem.present /\ elem.kids # 0 /\ elem.has_text /\ elem.text # <<>>

SummaryUnavailable == <<"CJK","CJK","CJK","CJK","CJK">>
DateUnavailable == <<"CJK","CJK","CJK","CJK","CJK">>

ZeroScore == [num |-> 0, den |-> 1]

\* `if not (title_elem is not None and title_elem.text and ...)`
HasRequiredFields(entry) == HasText(entry.title) /\ HasText(entry.id)

\* Optional[Dict]: <<>> for None, <<paper_data>> for a record.  authors,
\* pdf_link, doi and journal_ref are computed from other elements and read
\* by none of the operations below; they are left out of the record.
_parse_paper_entry(entry) ==
  IF ~ HasRequiredFields(entry)
    THEN <<>>
    ELSE
      LET title     == Strip(entry.title.text)
          summary   == IF TruthyWithText(entry.summary)
                         THEN Strip(entry.summary.text) ELSE SummaryUnavailable
          published == IF TruthyWithText(entry.published)
                         THEN entry.published.text ELSE DateUnavailable
          updated   == IF TruthyWithText(entry.updated)
                         THEN entry.updated.text ELSE published
          arxiv_url == entry.id.text
      IN  << [id              |-> LastSegment(arxiv_url),
              title           |-> CollapseWhitespace(title),
              summary         |-> CollapseWhitespace(summary),
              published       |-> published,
              updated         |-> updated,
              arxiv_url       |-> arxiv_url,
              categories      |-> SelectSeq(entry.categories, LAMBDA term : term # ""),
              relevance_score |-> ZeroScore] >>

-----------------------------------------------------------------------------
(* Texts                                                                   *)

TopicGraphAttention ==
  <<"g","r","a","p","h"," ","a","t","t","e","n","t","i","o","n">>

TopicStopWords ==
  <<"o","f"," ","t","h","e">>

TopicEmpty ==
  <<>>

TopicShortWords ==
  <<"4","2"," ","a","i","_","m","l"," ","x","3","d"," ","g","o">>

TopicQuantum ==
  <<"Q","u","a","n","t","u","m"," ","o","p","t","i","m","i","z","a","t",
    "i","o","n">>

TitleGraphAttention ==
  <<"G","r","a","p","h"," ","A","t","t","e","n","t","i","o","n">>

TitleGraph ==
  <<"G","r","a","p","h">>

TitleAttentionModels ==
  <<"A","t","t","e","n","t","i","o","n"," ","\n"," ","M","o","d","e","l",
    "s">>

TitleDatabases ==
  <<"D","a","t","a","b","a","s","e","s">>

TitleBlank ==
  <<" "," "," ">>

TitleQuantum ==
  <<"Q","u","a","n","t","u","m","_","o","p","t","i","m","i","z","a","t",
    "i","o","n"," ","o","f"," ","q","u","a","n","t","u","m"," ","2","o",
    "p","t","i","m","i","z","a","t","i","o","n">>

SummaryAttention ==
  <<"W","e"," ","s","t","u","d","y"," ","a","t","t","e","n","t","i","o",
    "n",".">>

SummaryQuantum ==
  <<"o","p","t","i","m","i","z","a","t","i","o","n",";"," ","Q","U","A",
    "N","T","U","M">>

UrlA ==
  <<"h","t","t","p",":","/","/","a","r","x","i","v",".","o","r","g","/",
    "a","b","s","/","2","3","0","1",".","0","0","0","0","1">>

UrlB ==
  <<"h","t","t","p",":","/","/","a","r","x","i","v",".","o","r","g","/",
    "a","b","s","/","2","3","0","2",".","0","0","0","0","2">>

UrlC ==
  <<"h","t","t","p",":","/","/","a","r","x","i","v",".","o","r","g","/",
    "a","b","s","/","2","3","0","3",".","0","0","0","0","3">>

UrlNoId ==
  <<"h","t","t","p",":","/","/","a","r","x","i","v",".","o","r","g","/",
    "a","b","s","/">>

DateToday ==
  <<"2","0","2","6","-","1","1","-","0","4","T","0","9",":","0","0",":",
    "0","0","Z">>

DateLastYear ==
  <<"2","0","2","5","-","1","1","-","0","4","T","0","9",":","0","0",":",
    "0","0","Z">>

DateRecent ==
  <<"2","0","2","6","-","0","5","-","0","1","T","0","0",":","0","0",":",
    "0","0","Z">>

DateOld ==
  <<"2","0","1","9","-","0","2","-","2","8","T","0","0",":","0","0",":",
    "0","0","Z">>

DateFuture ==
  <<"2","0","2","7","-","1","2","-","2","5","T","0","0",":","0","0",":",
    "0","0","Z">>

DateFarFuture ==
  <<"2","0","4","0","-","0","1","-","0","1">>

DateInvalid ==
  <<"2","0","2","6","-","0","2","-","3","0","T","0","0",":","0","0",":",
    "0","0","Z">>

DateShort ==
  <<"2","0","2","6","-","1","1","-","4">>

TitleQuantumOptimization ==
  <<"Q","u","a","n","t","u","m"," ","O","p","t","i","m","i","z","a","t",
    "i","o","n">>

TitleGraphDatabases ==
  <<"G","r","a","p","h"," ","D","a","t","a","b","a","s","e","s">>

-----------------------------------------------------------------------------
(* Inputs                                                                  *)

\* datetime.now() as a day number: 2026-11-04
Today == 739924

MaxEntries == 3      \* entries in one API reply
MaxResults == 3      \* largest max_results a caller passes

Entry(title, id, summary, published, categories) ==
  [title |-> title, id |-> id, summary |-> summary, published |-> published,
   updated |-> Absent, categories |-> categories]

EntryA1 == Entry(Elem(TitleGraphAttention), Elem(UrlA), Elem(SummaryAttention),
                 Elem(DateToday), <<"cs.LG">>)
EntryA2 == Entry(Elem(TitleDatabases), Elem(UrlA), Absent, Absent, <<"cs.LG">>)
EntryA3 == Entry(Elem(TitleGraph), Elem(UrlA), Absent, Absent, <<>>)
EntryB  == Entry(Elem(TitleAttentionModels), Elem(UrlB), ElemWithKids(SummaryAttention),
                 ElemWithKids(DateRecent), <<"cs.LG", "cs.AI">>)
EntryC  == Entry(Elem(TitleGraphDatabases), Elem(UrlC), EmptyElem, EmptyElem, <<"cs.DB", "">>)
EntryNoTitle == Entry(Absent, Elem(UrlC), Absent, Absent, <<>>)
EntryEmptyTitle == Entry(EmptyElem, Elem(UrlB), Absent, Absent, <<>>)
EntryNoIdElem == Entry(Elem(TitleGraph), Absent, Absent, Absent, <<>>)
EntryBlankTitle == Entry(Elem(TitleBlank), Elem(UrlB), Absent, Absent, <<>>)
EntryNoId == Entry(Elem(TitleGraph), Elem(UrlNoId), Absent, Absent, <<>>)

\* entries the orchestrator's replies are made of
SearchEntries == {EntryA1, EntryA2, EntryA3, EntryB, EntryC}

\* entries the executor alone is run on
ExecEntries ==
  {EntryA1, EntryB, EntryNoTitle, EntryEmptyTitle, EntryNoIdElem, EntryBlankTitle, EntryNoId}

AllEntries == SearchEntries \cup ExecEntries

SearchTopics == {TopicGraphAttention}
Strategies == {"comprehensive", "balanced", "precise"}
MinRelevances == {10, 40}

\* The parser and the scorer are functions of their arguments: their values
\* on the inputs above are tabulated once.
ParseMemo == [e \in AllEntries |-> _parse_paper_entry(e)]

ParsePaperEntry(entry) == ParseMemo[entry]

SearchPapers == UNION {Range(ParseMemo[e]) : e \in SearchEntries}

ScoreMemo ==
  [t \in SearchTopics |-> [p \in SearchPapers |-> _calculate_relevance_score(p, t, Today)]]

RelevanceScore(paper, t, today) ==
  IF t \in SearchTopics /\ paper \in SearchPapers /\ today = Today
    THEN ScoreMemo[t][paper]
    ELSE _calculate_relevance_score(paper, t, today)

NoExec == [response |-> "none", entries |-> <<>>, outcome |-> "none", papers |-> <<>>]
NoScore == [num |-> -1, den |-> 1]

ScoreTopics == {TopicGraphAttention, TopicStopWords, TopicEmpty, TopicShortWords, TopicQuantum}
ScoreTitles == {TitleGraphAttention, TitleQuantum, TitleQuantumOptimization, TitleDatabases}
ScoreSummaries == {SummaryUnavailable, SummaryAttention, SummaryQuantum}
ScoreCategories == {<<>>, <<"cs.LG">>, <<"cs.LG", "cs.AI", "cs.CL">>, <<"quant-ph", "cs.AI", "cs.LG", "math.OC", "stat.ML">>}
ScoreDates == {DateUnavailable, DateToday, DateLastYear, DateRecent, DateOld,
               DateFuture, DateFarFuture, DateInvalid, DateShort}

ScorePapers ==
  {[id |-> <<"1">>, title |-> t, summary |-> s, published |-> p, updated |-> p,
    arxiv_url |-> <<"1">>, categories |-> c, relevance_score |-> ZeroScore] :
     t \in ScoreTitles, s \in ScoreSummaries, c \in ScoreCategories, p \in ScoreDates}

-----------------------------------------------------------------------------
(* Search Executor                                                         *)

user_agents == 3

\* _get_next_user_agent: the index handed out and the counter afterwards
_get_next_user_agent(cua) == [agent |-> cua, next |-> (cua + 1) % user_agents]

\* What requests.get / raise_for_status / ET.fromstring / the error check
\* make of the reply.
ResponseKinds == {"transport_error", "http_error", "bad_xml", "api_error", "ok"}

\* `for entry in entries: ... if paper_info: papers.append(paper_info)`
RECURSIVE ParseEntries(_)
ParseEntries(entries) ==
  IF entries = <<>> THEN <<>>
  ELSE ParsePaperEntry(Head(entries)) \o ParseEntries(Tail(entries))

\* `except requests.RequestException` in place of `except Exception`
ExecuteExceptRequestsOnly(kind) ==
  IF kind \in {"transport_error", "http_error"} THEN "returned" ELSE "raised"

\* `except Exception as e: logger.error(...); return []` covers every
\* statement that can fail on the reply: "returned" or "raised".
ExecuteExcept(kind) == "returned"

\* Outcome of _execute_search for a reply: every kind but "ok" raises inside
\* the try block and ends in the except clause.
_execute_search(response) ==
  IF response.kind = "ok"
    THEN [outcome |-> "returned", papers |-> ParseEntries(response.entries)]
    ELSE [outcome |-> ExecuteExcept(response.kind), papers |-> <<>>]

\* The replies the API can give, with entries drawn from `universe`
SeqsUpTo(S, n) == UNION {[1..k -> S] : k \in 0..n}

Responses(universe) ==
  {[kind |-> k, entries |-> <<>>] : k \in ResponseKinds \ {"ok"}}
    \cup {[kind |-> "ok", entries |-> es] : es \in SeqsUpTo(universe, MaxEntries)}

-----------------------------------------------------------------------------
(* Ranking/Dedup Orchestrator: search_papers_with_relevance                *)

\* the fallbacks appended for every strategy
StrategyListAlwaysExtended(s) == <<s, "balanced", "precise">>

\* strategies = [strategy]; comprehensive falls back to balanced, precise
StrategyList(s) ==
  IF s = "comprehensive" THEN <<s, "balanced", "precise">> ELSE <<s>>

\* `all_papers.append(paper)` without the test
QualifiesAlways(score, m) == TRUE

\* relevance_score >= min_relevance, min_relevance in hundredths
Qualifies(score, m) == score.num * 100 >= m * score.den

\* `paper['relevance_score'] = relevance_score` for every candidate
RECURSIVE ScoreAll(_, _, _)
ScoreAll(papers, t, today) ==
  IF papers = <<>> THEN <<>>
  ELSE <<[Head(papers) EXCEPT !.relevance_score = RelevanceScore(Head(papers), t, today)]>>
         \o ScoreAll(Tail(papers), t, today)

\* `if relevance_score >= min_relevance: all_papers.append(paper)`
KeepQualifying(scored, m) ==
  SelectSeq(scored, LAMBDA paper : Qualifies(paper.relevance_score, m))

\* the loop without `if all_papers: break`
LoopExitNoBreak(working, rest) == IF rest = <<>> THEN "rank" ELSE "loop"

\* `if all_papers: break`
LoopExit(working, rest) == IF working # <<>> \/ rest = <<>> THEN "rank" ELSE "loop"

\* an except clause that logs and re-raises
ExceptReraise(rest) == "raised"

\* `except Exception as e: logger.warning(...); continue`
ExceptContinue(rest) == IF rest = <<>> THEN "rank" ELSE "loop"

\* Places inside the try block where an exception can start: building the
\* query (337: topic is not a str), evaluating the call at line 337, and the
\* scorer or the comparison with min_relevance.  The last two raise on the
\* value of topic or min_relevance, not on the candidate, hence on the first
\* candidate, before anything is appended.
Faults == {"none", "build", "execute", "score"}

\* the comparison of the dedup step turned around
ReplacesLower(new, old) == new.num * old.den < old.num * new.den

\* unique_papers[paper_id] = paper, keeping first-insertion order of a dict
\* `paper['relevance_score'] > unique_papers[paper_id]['relevance_score']`
Replaces(new, old) == new.num * old.den > old.num * new.den

\* Dedup without the `paper_id not in unique_papers` test
DedupKeepAll(papers, unique) == unique \o papers

RECURSIVE Dedup(_, _)
Dedup(papers, unique) ==
  IF papers = <<>> THEN unique
  ELSE
    LET paper == Head(papers)
        at    == {i \in 1..Len(unique) : unique[i].id = paper.id}
    IN  IF at = {}
          THEN Dedup(Tail(papers), Append(unique, paper))
          ELSE LET i == CHOOSE j \in at : TRUE
               IN  IF Replaces(paper.relevance_score, unique[i].relevance_score)
                     THEN Dedup(Tail(papers), [unique EXCEPT ![i] = paper])
                     ELSE Dedup(Tail(papers), unique)

\* key order of sorted(...) without reverse=True
BeforeAscending(a, b) == a.num * b.den < b.num * a.den

\* key order of sorted(..., reverse=True): a goes before b
Before(a, b) == a.num * b.den > b.num * a.den

\* sorted(values, key=relevance_score, reverse=True): stable, descending
RECURSIVE InsertSorted(_, _)
InsertSorted(sorted, paper) ==
  IF sorted = <<>> THEN <<paper>>
  ELSE IF Before(paper.relevance_score, Head(sorted).relevance_score)
    THEN <<paper>> \o sorted
    ELSE <<Head(sorted)>> \o InsertSorted(Tail(sorted), paper)

RECURSIVE SortByRelevance(_)
SortByRelevance(papers) ==
  IF papers = <<>> THEN <<>>
  ELSE InsertSorted(SortByRelevance(SubSeq(papers, 1, Len(papers) - 1)), papers[Len(papers)])

\* sorted_papers[:max_results * 2]
TruncateDoubled(papers, n) == SubSeq(papers, 1, Min(2 * n, Len(papers)))

\* sorted_papers[:max_results], max_results >= 0
Truncate(papers, n) == SubSeq(papers, 1, Min(n, Len(papers)))

-----------------------------------------------------------------------------
(* Actions of the orchestrator                                             *)

SearchInit ==
  /\ pc = "idle"
  /\ topic = <<>>
  /\ max_results = 0
  /\ strategy = "comprehensive"
  /\ min_relevance = 10
  /\ strategies = <<>>
  /\ all_papers = <<>>
  /\ result = <<>>
  /\ calls = <<>>
  /\ returned = <<>>
  /\ caught = <<>>
  /\ last_exec = NoExec
  /\ current_user_agent = 0

ScoreIdle ==
  /\ sc_paper = CHOOSE p \in ScorePapers : TRUE
  /\ sc_topic = <<>>
  /\ sc_today = Today
  /\ sc_score = NoScore

NoCats == {"none"}

CategoriesIdle ==
  /\ cat_topic = <<>>
  /\ cat_result = NoCats

RepeatIdle ==
  /\ rp_stub = <<>>
  /\ rp_args = [topic |-> <<>>, max_results |-> 0, strategy |-> "comprehensive",
                min_relevance |-> 10]
  /\ rp_now = Today
  /\ rp_results = <<>>

LegacyIdle ==
  /\ lg_pc = "idle"
  /\ lg_topic = <<>>
  /\ lg_max_results = 0
  /\ lg_sort_by = "submittedDate"
  /\ lg_queries = <<>>
  /\ lg_first = <<>>
  /\ lg_result = <<>>

CompareIdle ==
  /\ cmp_topic = <<>>
  /\ cmp_papers = <<>>
  /\ cmp_scores = <<>>

AgentsIdle ==
  /\ ua_pc = <<>>
  /\ ua_read = <<>>
  /\ ua_left = <<>>
  /\ ua_handed = <<>>
  /\ ua_completed = 0

SchedulerIdle ==
  /\ sch_pc = "off"
  /\ sch_now = 0
  /\ sch_next_run = 0
  /\ sch_checks = {}
  /\ sch_triggered = {}

NoQuery == [joiner |-> "none", parts |-> <<>>]

QueryIdle ==
  /\ oq_topic = <<>>
  /\ oq_strategy = "none"
  /\ oq_query = NoQuery

KeywordsIdle ==
  /\ kw_pc = "off"
  /\ kw_text = <<>>
  /\ kw_tokens = <<>>

PipelineIdle ==
  /\ pl_pc = "off"
  /\ pl_papers = <<>>
  /\ pl_results = <<>>
  /\ pl_succeeded = {}
  /\ pl_successful = <<>>

\* the file at filepath: absent, or present with its size in bytes and
\* whether the whole response body was written to it
NoFile == [exists |-> FALSE, size |-> 0, complete |-> FALSE]

DownloadIdle ==
  /\ dl_pc = "off"
  /\ dl_retry = 0
  /\ dl_file = NoFile
  /\ dl_returns = <<>>

ExtIdle == QueryIdle /\ KeywordsIdle /\ PipelineIdle /\ DownloadIdle

OtherIdle ==
  CategoriesIdle /\ RepeatIdle /\ LegacyIdle /\ CompareIdle /\ AgentsIdle /\ SchedulerIdle /\ ExtIdle

\* search_papers_with_relevance(t, n, s, m): lines 327-332
search_papers_with_relevance(t, n, s, m) ==
  /\ pc = "idle"
  /\ pc' = "loop"
  /\ topic' = t
  /\ max_results' = n
  /\ strategy' = s
  /\ min_relevance' = m
  /\ strategies' = StrategyList(s)
  /\ all_papers' = <<>>
  /\ result' = <<>>
  /\ calls' = <<>>
  /\ returned' = <<>>
  /\ caught' = <<>>
  /\ last_exec' = NoExec
  /\ UNCHANGED current_user_agent

\* One iteration of `for search_strategy in strategies` in which the try
\* block raises at `fault` before the executor is called.
StrategyRaisesEarly(fault) ==
  /\ pc = "loop"
  /\ fault \in {"build", "execute"}
  /\ caught' = Append(caught, [strategy |-> Head(strategies), at |-> fault])
  /\ strategies' = Tail(strategies)
  /\ pc' = ExceptContinue(Tail(strategies))
  /\ UNCHANGED <<topic, max_results, strategy, min_relevance, all_papers, result,
                 calls, returned, last_exec, current_user_agent>>

\* One iteration in which the executor runs (and returns `response` parsed);
\* fault = "score" raises at the first candidate, fault = "none" completes.
TryStrategy(response, fault) ==
  /\ pc = "loop"
  /\ fault \in {"none", "score"}
  /\ LET search_strategy == Head(strategies)
         rest   == Tail(strategies)
         exec   == _execute_search(response)
         scored == ScoreAll(exec.papers, topic, Today)
         kept   == KeepQualifying(scored, min_relevance)
     IN  /\ calls' = Append(calls, [strategy |-> search_strategy, max_results |-> max_results * 2])
         /\ current_user_agent' = _get_next_user_agent(current_user_agent).next
         /\ strategies' = rest
         /\ IF exec.outcome = "raised"
              THEN /\ pc' = ExceptContinue(rest)
                   /\ caught' = Append(caught, [strategy |-> search_strategy, at |-> "execute"])
                   /\ UNCHANGED <<all_papers, returned>>
            ELSE IF fault = "score"
              THEN /\ exec.papers # <<>>
                   /\ pc' = ExceptContinue(rest)
                   /\ caught' = Append(caught, [strategy |-> search_strategy, at |-> "score"])
                   /\ returned' = Append(returned, {})
                   /\ UNCHANGED all_papers
              ELSE /\ all_papers' = all_papers \o kept
                   /\ returned' = Append(returned,
                        {[id |-> scored[i].id, score |-> scored[i].relevance_score] :
                           i \in 1..Len(scored)})
                   /\ pc' = LoopExit(all_papers \o kept, rest)
                   /\ UNCHANGED caught
  /\ UNCHANGED <<topic, max_results, strategy, min_relevance, result, last_exec>>

\* lines 354-371: dedup, sort, truncate, return
RankAndReturn ==
  /\ pc = "rank"
  /\ result' = Truncate(SortByRelevance(Dedup(all_papers, <<>>)), max_results)
  /\ pc' = "done"
  /\ UNCHANGED <<topic, max_results, strategy, min_relevance, strategies, all_papers,
                 calls, returned, caught, last_exec, current_user_agent>>

\* main.py builds one ArxivResearcher per run and searches once with it: a
\* behaviour is one call, from the constructed object to the returned list.
Init == SearchInit /\ ScoreIdle /\ OtherIdle

SearchResponses == Responses(SearchEntries)

Next ==
  \/ /\ \E t \in SearchTopics, n \in 0..MaxResults, s \in Strategies, m \in MinRelevances :
          search_papers_with_relevance(t, n, s, m)
     /\ UNCHANGED <<score_vars, other_vars>>
  \/ /\ pc = "loop"
     /\ \E fault \in Faults : StrategyRaisesEarly(fault)
     /\ UNCHANGED <<score_vars, other_vars>>
  \/ /\ pc = "loop"
     /\ \E response \in SearchResponses, fault \in Faults : TryStrategy(response, fault)
     /\ UNCHANGED <<score_vars, other_vars>>
  \/ /\ RankAndReturn
     /\ UNCHANGED <<score_vars, other_vars>>

Spec == Init /\ [][Next]_vars

-----------------------------------------------------------------------------
(* The scorer on its own: one call per input                               *)

ScoreTodays == {Today, Today + 1}

ScoreInit ==
  /\ SearchInit
  /\ OtherIdle
  /\ sc_paper \in ScorePapers
  /\ sc_topic \in ScoreTopics
  /\ sc_today \in ScoreTodays
  /\ sc_score = NoScore

CalculateRelevanceScore ==
  /\ sc_score = NoScore
  /\ sc_score' = _calculate_relevance_score(sc_paper, sc_topic, sc_today)
  /\ UNCHANGED <<sc_paper, sc_topic, sc_today>>
  /\ UNCHANGED <<search_vars, other_vars>>

ScoreNext == CalculateRelevanceScore

SpecScore == ScoreInit /\ [][ScoreNext]_vars

-----------------------------------------------------------------------------
(* The category lookup on its own: one call per topic                      *)

WordQuantum == <<"q","u","a","n","t","u","m">>
WordGravity == <<"g","r","a","v","i","t","y">>
WordSimulation == <<"s","i","m","u","l","a","t","i","o","n">>
WordMachine == <<"M","a","c","h","i","n","e">>
WordLearning == <<"l","e","a","r","n","i","n","g">>

TopicWords == {WordQuantum, WordGravity, WordSimulation, WordMachine, WordLearning}

MaxTopicWords == 3

RECURSIVE JoinWords(_)
JoinWords(ws) ==
  IF ws = <<>> THEN <<>>
  ELSE IF Len(ws) = 1 THEN ws[1]
  ELSE ws[1] \o <<" ">> \o JoinWords(Tail(ws))

\* Topics of up to MaxTopicWords words separated by one space.
CategoryTopics == {JoinWords(ws) : ws \in SeqsUpTo(TopicWords, MaxTopicWords)}

CategoriesInit ==
  /\ SearchInit
  /\ ScoreIdle
  /\ RepeatIdle
  /\ LegacyIdle
  /\ CompareIdle
  /\ AgentsIdle
  /\ SchedulerIdle /\ ExtIdle
  /\ cat_topic \in CategoryTopics
  /\ cat_result = NoCats

GetRelevantCategories ==
  /\ cat_result = NoCats
  /\ cat_result' = _get_relevant_categories(cat_topic)
  /\ UNCHANGED cat_topic
  /\ UNCHANGED <<search_vars, score_vars, rp_vars, lg_vars, cmp_vars, ua_vars, sch_vars, ext_vars>>

CategoriesNext == GetRelevantCategories

SpecCategories == CategoriesInit /\ [][CategoriesNext]_vars

-----------------------------------------------------------------------------
(* Repeated calls of search_papers_with_relevance on a stubbed executor    *)

MaxStub == 2         \* candidates the stub returns
MaxCalls == 2        \* calls made on one ArxivResearcher
MaxDays == 1         \* days the clock can advance between calls

\* the candidates the stub is made of: parsed records, one of them dated
RepeatPapers == {ParsePaperEntry(e)[1] : e \in {EntryA1, EntryB, EntryC}}

\* lines 334-352 with _execute_search replaced by a stub that returns
\* `candidates` on every call: the working set when the loop ends
RECURSIVE RunStrategies(_, _, _, _, _)
RunStrategies(candidates, strats, t, m, today) ==
  IF strats = <<>> THEN <<>>
  ELSE LET kept == KeepQualifying(ScoreAll(candidates, t, today), m)
       IN  IF LoopExit(kept, Tail(strats)) = "rank"
             THEN kept
             ELSE RunStrategies(candidates, Tail(strats), t, m, today)

\* lines 327-371 as one call made on day `today`
FindRelevant(candidates, a, today) ==
  Truncate(SortByRelevance(Dedup(
     RunStrategies(candidates, StrategyList(a.strategy), a.topic, a.min_relevance, today),
     <<>>)), a.max_results)

RepeatInit ==
  /\ SearchInit
  /\ ScoreIdle
  /\ CategoriesIdle
  /\ LegacyIdle
  /\ CompareIdle
  /\ AgentsIdle
  /\ SchedulerIdle /\ ExtIdle
  /\ rp_stub \in SeqsUpTo(RepeatPapers, MaxStub)
  /\ rp_args \in [topic : SearchTopics, max_results : 0..MaxResults,
                   strategy : Strategies, min_relevance : MinRelevances]
  /\ rp_now = Today
  /\ rp_results = <<>>

\* a call that leaves out the ids an earlier call on this object returned
RepeatCallSkipSeen ==
  /\ Len(rp_results) < MaxCalls
  /\ LET seen  == UNION {{r.result[i].id : i \in 1..Len(r.result)} : r \in Range(rp_results)}
         fresh == SelectSeq(rp_stub, LAMBDA paper : paper.id \notin seen)
     IN  rp_results' = Append(rp_results,
                          [day |-> rp_now, result |-> FindRelevant(fresh, rp_args, rp_now)])
  /\ UNCHANGED <<rp_stub, rp_args, rp_now>>
  /\ UNCHANGED <<search_vars, score_vars, cat_vars, lg_vars, cmp_vars, ua_vars, sch_vars, ext_vars>>

\* one whole call with the fixed arguments, at the current day
RepeatCall ==
  /\ Len(rp_results) < MaxCalls
  /\ rp_results' = Append(rp_results,
                       [day |-> rp_now, result |-> FindRelevant(rp_stub, rp_args, rp_now)])
  /\ UNCHANGED <<rp_stub, rp_args, rp_now>>
  /\ UNCHANGED <<search_vars, score_vars, cat_vars, lg_vars, cmp_vars, ua_vars, sch_vars, ext_vars>>

\* midnight passes between two calls
Midnight ==
  /\ rp_now < Today + MaxDays
  /\ rp_now' = rp_now + 1
  /\ UNCHANGED <<rp_stub, rp_args, rp_results>>
  /\ UNCHANGED <<search_vars, score_vars, cat_vars, lg_vars, cmp_vars, ua_vars, sch_vars, ext_vars>>

RepeatNext == RepeatCall \/ Midnight

SpecRepeat == RepeatInit /\ [][RepeatNext]_vars

-----------------------------------------------------------------------------
(* search_papers and _fallback_search                                      *)

SortBys == {"submittedDate", "relevance", "lastUpdatedDate"}

\* entries of the replies search_papers is run on
LegacyEntries == {EntryA1, EntryB, EntryEmptyTitle}

\* a reply with <error> elements can hold entries as well
LegacyResponses ==
  {[kind |-> k, entries |-> <<>>] : k \in {"transport_error", "http_error", "bad_xml"}}
    \cup {[kind |-> k, entries |-> es] :
            k \in {"ok", "api_error"}, es \in SeqsUpTo(LegacyEntries, MaxEntries)}

\* the query generate_arxiv_query builds (from the AI client or the balanced
\* strategy): its text does not matter here
OptimizedQuery == <<"generate_arxiv_query(topic)">>

\* f'all:"{topic}"'
SimpleQuery(t) == <<"a", "l", "l", ":", "\"">> \o t \o <<"\"">>

\* `for entry in entries: ... papers.append(paper_info);
\*  if len(papers) >= max_results: break`
RECURSIVE ParseUpTo(_, _, _)
ParseUpTo(entries, n, papers) ==
  IF entries = <<>> THEN papers
  ELSE LET paper_info == ParsePaperEntry(Head(entries))
       IN  IF paper_info = <<>> THEN ParseUpTo(Tail(entries), n, papers)
           ELSE IF Len(papers) + 1 >= n THEN papers \o paper_info
           ELSE ParseUpTo(Tail(entries), n, papers \o paper_info)

\* a retry whenever the first attempt has fewer than max_results records
NeedsFallbackWhenShort(papers, n) == Len(papers) < n

\* `if not papers: return self._fallback_search(...)`
NeedsFallback(papers, n) == papers = <<>>

LegacyInit == SearchInit /\ ScoreIdle /\ OtherIdle

\* lines 432-440: relevance delegates; otherwise the query is built and the
\* user agent taken
search_papers(t, n, sort_by) ==
  /\ lg_pc = "idle"
  /\ lg_topic' = t
  /\ lg_max_results' = n
  /\ lg_sort_by' = sort_by
  /\ IF sort_by = "relevance"
       THEN /\ lg_pc' = "delegated"
            /\ search_papers_with_relevance(t, n, "comprehensive", 10)
       ELSE /\ lg_pc' = "direct"
            /\ current_user_agent' = _get_next_user_agent(current_user_agent).next
            /\ UNCHANGED <<pc, topic, max_results, strategy, min_relevance, strategies,
                           all_papers, result, calls, returned, caught, last_exec>>
  /\ UNCHANGED <<lg_queries, lg_first, lg_result>>

\* lines 451-495: the request, the parse and the three ways into the fallback
DirectQuery(response) ==
  /\ lg_pc = "direct"
  /\ lg_queries' = Append(lg_queries,
                      [by |-> "search_papers", search_query |-> OptimizedQuery,
                       max_results |-> lg_max_results * 2])
  /\ LET papers == IF response.kind = "ok"
                     THEN ParseUpTo(response.entries, lg_max_results, <<>>)
                     ELSE <<>>
     IN  /\ lg_first' = papers
         /\ IF response.kind # "ok" \/ NeedsFallback(papers, lg_max_results)
              THEN /\ lg_pc' = "fallback"
                   /\ UNCHANGED lg_result
              ELSE /\ lg_pc' = "done"
                   /\ lg_result' = Truncate(papers, lg_max_results)
  /\ UNCHANGED <<lg_topic, lg_max_results, lg_sort_by>>
  /\ UNCHANGED search_vars

\* lines 497-534: _fallback_search, which has no <error> check
FallbackSearch(response) ==
  /\ lg_pc = "fallback"
  /\ current_user_agent' = _get_next_user_agent(current_user_agent).next
  /\ lg_queries' = Append(lg_queries,
                      [by |-> "_fallback_search", search_query |-> SimpleQuery(lg_topic),
                       max_results |-> lg_max_results * 2])
  /\ lg_result' = IF response.kind \in {"ok", "api_error"}
                    THEN ParseUpTo(response.entries, lg_max_results, <<>>)
                    ELSE <<>>
  /\ lg_pc' = "done"
  /\ UNCHANGED <<lg_topic, lg_max_results, lg_sort_by, lg_first>>
  /\ UNCHANGED <<pc, topic, max_results, strategy, min_relevance, strategies,
                 all_papers, result, calls, returned, caught, last_exec>>

\* line 433: `return self.search_papers_with_relevance(topic, max_results)`
DelegateReturn ==
  /\ lg_pc = "delegated"
  /\ pc = "done"
  /\ lg_result' = result
  /\ lg_pc' = "done"
  /\ UNCHANGED <<lg_topic, lg_max_results, lg_sort_by, lg_queries, lg_first>>
  /\ UNCHANGED search_vars

LegacyNext ==
  \/ /\ \E t \in SearchTopics, n \in 0..MaxResults, sort_by \in SortBys :
          search_papers(t, n, sort_by)
     /\ UNCHANGED <<score_vars, cat_vars, rp_vars, cmp_vars, ua_vars, sch_vars, ext_vars>>
  \/ /\ lg_pc = "direct"
     /\ \E response \in LegacyResponses : DirectQuery(response)
     /\ UNCHANGED <<score_vars, cat_vars, rp_vars, cmp_vars, ua_vars, sch_vars, ext_vars>>
  \/ /\ lg_pc = "fallback"
     /\ \E response \in LegacyResponses : FallbackSearch(response)
     /\ UNCHANGED <<score_vars, cat_vars, rp_vars, cmp_vars, ua_vars, sch_vars, ext_vars>>
  \/ /\ pc = "loop"
     /\ \E fault \in Faults : StrategyRaisesEarly(fault)
     /\ UNCHANGED <<score_vars, other_vars>>
  \/ /\ pc = "loop"
     /\ \E response \in LegacyResponses, fault \in Faults : TryStrategy(response, fault)
     /\ UNCHANGED <<score_vars, other_vars>>
  \/ /\ RankAndReturn
     /\ UNCHANGED <<score_vars, other_vars>>
  \/ /\ DelegateReturn
     /\ UNCHANGED <<score_vars, cat_vars, rp_vars, cmp_vars, ua_vars, sch_vars, ext_vars>>

SpecLegacy == LegacyInit /\ [][LegacyNext]_vars

-----------------------------------------------------------------------------
(* The scorer on two papers that differ in the title only                  *)

TopicAttentionMechanismTransformer ==
  <<"a","t","t","e","n","t","i","o","n"," ","m","e","c","h","a","n","i",
    "s","m"," ","t","r","a","n","s","f","o","r","m","e","r">>

TitleAttentionIsAllYouNeed ==
  <<"A","t","t","e","n","t","i","o","n"," ","I","s"," ","A","l","l"," ",
    "Y","o","u"," ","N","e","e","d">>

TitleSurveyDatabaseIndexing ==
  <<"A"," ","S","u","r","v","e","y"," ","o","f"," ","D","a","t","a","b",
    "a","s","e"," ","I","n","d","e","x","i","n","g">>

SummaryAttentionMechanism ==
  <<"T","h","e"," ","a","t","t","e","n","t","i","o","n"," ","m","e","c",
    "h","a","n","i","s","m"," ","o","f"," ","t","h","e"," ","T","r","a",
    "n","s","f","o","r","m","e","r",".">>

CompareTitles == {TitleAttentionIsAllYouNeed, TitleSurveyDatabaseIndexing, TitleGraphAttention}
CompareSummaries == {SummaryUnavailable, SummaryAttention, SummaryAttentionMechanism}

ComparePaper(title, summary, categories, published) ==
  [id |-> <<"1">>, title |-> title, summary |-> summary, published |-> published,
   updated |-> published, arxiv_url |-> <<"1">>, categories |-> categories,
   relevance_score |-> ZeroScore]

CompareInit ==
  /\ SearchInit
  /\ ScoreIdle
  /\ CategoriesIdle /\ RepeatIdle /\ LegacyIdle /\ AgentsIdle /\ SchedulerIdle /\ ExtIdle
  /\ cmp_topic = TopicAttentionMechanismTransformer
  /\ cmp_papers \in
       {<<ComparePaper(tt[1], s, c, p), ComparePaper(tt[2], s, c, p)>> :
          tt \in {x \in CompareTitles \X CompareTitles : x[1] # x[2]},
          s \in CompareSummaries, c \in ScoreCategories, p \in ScoreDates}
  /\ cmp_scores = <<NoScore, NoScore>>

\* one call of the scorer, on the i-th paper
CompareScore(i) ==
  /\ cmp_scores[i] = NoScore
  /\ cmp_scores' = [cmp_scores EXCEPT
                      ![i] = _calculate_relevance_score(cmp_papers[i], cmp_topic, Today)]
  /\ UNCHANGED <<cmp_topic, cmp_papers>>
  /\ UNCHANGED <<search_vars, score_vars, cat_vars, rp_vars, lg_vars, ua_vars, sch_vars, ext_vars>>

CompareNext == \E i \in 1..2 : CompareScore(i)

SpecCompare == CompareInit /\ [][CompareNext]_vars

-----------------------------------------------------------------------------
(* _get_next_user_agent called from several threads on one ArxivResearcher *)

NumThreads == 2           \* concurrent callers
MaxCallsPerThread == 2    \* calls each of them makes

Threads == 1..NumThreads

AgentsInit ==
  /\ SearchInit
  /\ ScoreIdle
  /\ CategoriesIdle /\ RepeatIdle /\ LegacyIdle /\ CompareIdle /\ SchedulerIdle /\ ExtIdle
  /\ ua_pc = [th \in Threads |-> "idle"]
  /\ ua_read = [th \in Threads |-> 0]
  /\ ua_left = [th \in Threads |-> MaxCallsPerThread]
  /\ ua_handed = <<>>
  /\ ua_completed = 0

\* line 122: agent = self.user_agents[self.current_user_agent]
TakeAgent(th) ==
  /\ ua_pc[th] = "idle"
  /\ ua_left[th] > 0
  /\ ua_left' = [ua_left EXCEPT ![th] = @ - 1]
  /\ ua_handed' = Append(ua_handed, current_user_agent)
  /\ ua_pc' = [ua_pc EXCEPT ![th] = "read"]
  /\ UNCHANGED <<ua_read, ua_completed, current_user_agent>>

\* line 123, right-hand side: self.current_user_agent is read
ReadCounter(th) ==
  /\ ua_pc[th] = "read"
  /\ ua_read' = [ua_read EXCEPT ![th] = current_user_agent]
  /\ ua_pc' = [ua_pc EXCEPT ![th] = "store"]
  /\ UNCHANGED <<ua_left, ua_handed, ua_completed, current_user_agent>>

\* line 123, the assignment, and line 124: the counter is stored from the
\* value read before, and the call returns
StoreCounter(th) ==
  /\ ua_pc[th] = "store"
  /\ current_user_agent' = (ua_read[th] + 1) % user_agents
  /\ ua_pc' = [ua_pc EXCEPT ![th] = "idle"]
  /\ ua_completed' = ua_completed + 1
  /\ UNCHANGED <<ua_read, ua_left, ua_handed>>

AgentsNext ==
  \/ /\ \E th \in Threads : TakeAgent(th)
     /\ UNCHANGED <<search_vars_but_agent, score_vars, cat_vars, rp_vars, lg_vars, cmp_vars,
                    sch_vars, ext_vars>>
  \/ /\ \E th \in Threads : ReadCounter(th)
     /\ UNCHANGED <<search_vars_but_agent, score_vars, cat_vars, rp_vars, lg_vars, cmp_vars,
                    sch_vars, ext_vars>>
  \/ /\ \E th \in Threads : StoreCounter(th)
     /\ UNCHANGED <<search_vars_but_agent, score_vars, cat_vars, rp_vars, lg_vars, cmp_vars,
                    sch_vars, ext_vars>>

SpecAgents == AgentsInit /\ [][AgentsNext]_vars

-----------------------------------------------------------------------------
(* run_scheduler (src/main.py): the every-minute check and the polling loop *)

\* Time is Beijing time in seconds, counted from the start of a window of
\* WindowMinutes minutes that holds the minute SCHEDULED_TIME names.
SecondsPerMinute == 60
WindowMinutes == 4
ScheduledMinute == 2        \* SCHEDULED_TIME (hour:minute) as a minute of the window
PollSeconds == 30           \* time.sleep(30)
CheckWindowSeconds == 30    \* `shanghai_time.second < 30`

MinuteOf(t) == t \div SecondsPerMinute
SecondOf(t) == t % SecondsPerMinute

\* The loop can be started at any second of the first minute; every().minute
\* sets next_run one minute after the job is created.
SchedulerInit ==
  /\ SearchInit
  /\ ScoreIdle
  /\ CategoriesIdle /\ RepeatIdle /\ LegacyIdle /\ CompareIdle /\ AgentsIdle
  /\ ExtIdle
  /\ sch_pc = "run_pending"
  /\ sch_now \in 0..(SecondsPerMinute - 1)
  /\ sch_next_run = sch_now + SecondsPerMinute
  /\ sch_checks = {}
  /\ sch_triggered = {}

\* check_and_run_task: hour and minute match, and second < 30
TaskDue(t) == MinuteOf(t) = ScheduledMinute /\ SecondOf(t) < CheckWindowSeconds

\* schedule.run_pending(): the job runs when its next_run has come, and is
\* scheduled again one minute after this run
RunPending ==
  /\ sch_pc = "run_pending"
  /\ IF sch_now >= sch_next_run
       THEN /\ sch_checks' = sch_checks \cup {sch_now}
            /\ sch_triggered' = IF TaskDue(sch_now) THEN sch_triggered \cup {sch_now}
                                ELSE sch_triggered
            /\ sch_next_run' = sch_now + SecondsPerMinute
       ELSE UNCHANGED <<sch_checks, sch_triggered, sch_next_run>>
  /\ sch_pc' = "sleep"
  /\ UNCHANGED sch_now

\* time.sleep(30)
Sleep ==
  /\ sch_pc = "sleep"
  /\ sch_now + PollSeconds < WindowMinutes * SecondsPerMinute
  /\ sch_now' = sch_now + PollSeconds
  /\ sch_pc' = "run_pending"
  /\ UNCHANGED <<sch_next_run, sch_checks, sch_triggered>>

SchedulerNext ==
  \/ /\ RunPending
     /\ UNCHANGED <<search_vars, score_vars, cat_vars, rp_vars, lg_vars, cmp_vars, ua_vars, ext_vars>>
  \/ /\ Sleep
     /\ UNCHANGED <<search_vars, score_vars, cat_vars, rp_vars, lg_vars, cmp_vars, ua_vars, ext_vars>>

SpecScheduler == SchedulerInit /\ [][SchedulerNext]_vars

-----------------------------------------------------------------------------
(* generate_optimized_query on its own: one call per behaviour             *)

\* the variables and the idle state of every harness but these
base_vars == <<search_vars, score_vars, cat_vars, rp_vars, lg_vars, cmp_vars, ua_vars, sch_vars>>

BaseIdle ==
  /\ SearchInit
  /\ ScoreIdle
  /\ CategoriesIdle /\ RepeatIdle /\ LegacyIdle /\ CompareIdle /\ AgentsIdle /\ SchedulerIdle

TopicPaddedAi == <<" ", "a", "i", " ">>

TopicThreeWords == <<"a", " ", " ", "b", "\t", "c">>

TopicFiveShort ==
  <<"g","a","n"," ","c","n","n"," ","r","n","n"," ","v","i","t"," ","n","l","p">>

TopicGraph == <<"G","r","a","p","h">>

TopicQuantumOnly == <<"q","u","a","n","t","u","m">>

QueryTopics ==
  {TopicEmpty, TopicStopWords, TopicShortWords, TopicPaddedAi, TopicThreeWords,
   TopicFiveShort, TopicGraph, TopicQuantumOnly}

QueryStrategies == Strategies \cup {"fast"}

QueryInit ==
  /\ BaseIdle
  /\ KeywordsIdle /\ PipelineIdle /\ DownloadIdle
  /\ oq_topic \in QueryTopics
  /\ oq_strategy \in QueryStrategies
  /\ oq_query = NoQuery

\* generate_optimized_query(oq_topic, oq_strategy): lines 183-223
GenerateOptimizedQuery ==
  /\ oq_topic \in QueryTopics
  /\ oq_query = NoQuery
  /\ LET topic_clean == Strip(oq_topic)
     IN  \E main_terms \in ListSlice(_expand_query_terms(topic_clean), MainTermsLimit),
            cats \in ListSlice(_get_relevant_categories(topic_clean), CategoryLimit) :
           oq_query' = generate_optimized_query(oq_topic, oq_strategy, main_terms, cats)
  /\ UNCHANGED <<oq_topic, oq_strategy>>
  /\ UNCHANGED <<base_vars, kw_vars, pl_vars, dl_vars>>

QueryNext == GenerateOptimizedQuery

SpecQuery == QueryInit /\ [][QueryNext]_vars

-----------------------------------------------------------------------------
(* _extract_keywords on its own: one call per behaviour                     *)

MaxTextLen == 4      \* longest generated text

\* letters of the stop word "and" in both cases, a digit, the underscore, a
\* blank and an ideograph
KeywordAlphabet == {"a", "n", "D", "3", "_", " ", "CJK"}

KeywordTexts ==
  SeqsUpTo(KeywordAlphabet, MaxTextLen)
    \cup {TitleQuantum, SummaryQuantum, TopicShortWords, TopicStopWords}

KeywordsInit ==
  /\ BaseIdle
  /\ QueryIdle /\ PipelineIdle /\ DownloadIdle
  /\ kw_pc = "call"
  /\ kw_text \in KeywordTexts
  /\ kw_tokens = <<>>

\* _extract_keywords(kw_text): lines 126-136
ExtractKeywords ==
  /\ kw_pc = "call"
  /\ kw_tokens' = _extract_keywords(kw_text)
  /\ kw_pc' = "done"
  /\ UNCHANGED kw_text
  /\ UNCHANGED <<base_vars, oq_vars, pl_vars, dl_vars>>

KeywordsNext == ExtractKeywords

SpecKeywords == KeywordsInit /\ [][KeywordsNext]_vars

-----------------------------------------------------------------------------
(* process_and_send (src/main.py) on batch_download_pdfs                    *)
(* (src/arxiv_process.py)                                                   *)

\* In the messages below an ideograph is the atom that names its code point.
MaxPapers == 2       \* papers search_papers returned

\* "PDF链接不可用"
MsgNoPdfLink ==
  <<"P", "D", "F", "U+94FE", "U+63A5", "U+4E0D", "U+53EF", "U+7528">>

\* f"下载PDF失败，已重试 {max_retries} 次"
MsgDownloadFailed ==
  <<"U+4E0B", "U+8F7D", "P", "D", "F", "U+5931", "U+8D25", "U+FF0C", "U+5DF2", "U+91CD",
    "U+8BD5", " ", "2", " ", "U+6B21">>

\* f"下载PDF时出错: {e}"
MsgDownloadError(e) ==
  <<"U+4E0B", "U+8F7D", "P", "D", "F", "U+65F6", "U+51FA", "U+9519", ":", " ">> \o e

\* f"处理论文 {paper_id} 时出错: {e}"
MsgProcessingError(paper_id, e) ==
  <<"U+5904", "U+7406", "U+8BBA", "U+6587", " ">> \o paper_id
    \o <<" ", "U+65F6", "U+51FA", "U+9519", ":", " ">> \o e

\* "下载PDF失败" and "处理论文"
PrefixDownloadFailed == <<"U+4E0B", "U+8F7D", "P", "D", "F", "U+5931", "U+8D25">>
PrefixProcessing == <<"U+5904", "U+7406", "U+8BBA", "U+6587">>

\* str.startswith
StartsWith(text, prefix) ==
  Len(text) >= Len(prefix) /\ SubSeq(text, 1, Len(prefix)) = prefix

\* str(self.data_dir / f"{paper['id']}.pdf")
PdfPath(paper_id) == <<"d", "a", "t", "a", "/">> \o paper_id \o <<".", "p", "d", "f">>

\* str(e) of an exception
ErrorText == <<"N", "o", " ", "s", "p", "a", "c", "e">>

\* The i-th paper of a batch: its id, and whether it has a pdf_link.
PipelinePaper(i, has_link) ==
  [id |-> IF i = 1 THEN <<"2", "3", "0", "1", ".", "0", "0", "0", "0", "1">>
          ELSE <<"2", "3", "0", "2", ".", "0", "0", "0", "0">> \o <<DigitSeq[i + 1]>>,
   pdf_link |-> has_link]

PipelineBatches ==
  UNION {{[i \in 1..n |-> PipelinePaper(i, links[i])] : links \in [1..n -> BOOLEAN]} :
           n \in 0..MaxPapers}

\* The ways a call of download_paper_pdf can end: the early return without a
\* link, a download, the retries used up, the last except clause, and an
\* exception that leaves the function (raised before the retry loop).
DownloadOutcomes(paper) ==
  IF ~paper.pdf_link THEN {"no_link"}
  ELSE {"downloaded", "retries_exhausted", "unexpected_error", "raised"}

\* (success, result) of download_paper_pdf for an outcome that returns
download_paper_pdf(paper, outcome) ==
  CASE outcome = "no_link" -> [success |-> FALSE, result |-> MsgNoPdfLink]
    [] outcome = "downloaded" -> [success |-> TRUE, result |-> PdfPath(paper.id)]
    [] outcome = "retries_exhausted" -> [success |-> FALSE, result |-> MsgDownloadFailed]
    [] outcome = "unexpected_error" ->
         [success |-> FALSE, result |-> MsgDownloadError(ErrorText)]

\* main.py line 94: the result is taken for a path unless it starts with one
\* of the two prefixes
IsSuccessfulResult(text) ==
  ~ StartsWith(text, PrefixDownloadFailed) /\ ~ StartsWith(text, PrefixProcessing)

PipelineInit ==
  /\ BaseIdle
  /\ QueryIdle /\ KeywordsIdle /\ DownloadIdle
  /\ pl_pc = "search"
  /\ pl_papers \in PipelineBatches
  /\ pl_results = <<>>
  /\ pl_succeeded = {}
  /\ pl_successful = <<>>

\* main.py lines 59-63: no paper found ends the run
NoPapers ==
  /\ pl_pc = "search"
  /\ pl_pc' = IF pl_papers = <<>> THEN "failed" ELSE "download"
  /\ UNCHANGED <<pl_papers, pl_results, pl_succeeded, pl_successful>>

\* batch_download_pdfs, one turn of its loop: lines 191-212
BatchDownloadPaper(outcome) ==
  /\ pl_pc = "download"
  /\ Len(pl_results) < Len(pl_papers)
  /\ LET paper == pl_papers[Len(pl_results) + 1]
     IN  /\ outcome \in DownloadOutcomes(paper)
         /\ IF outcome = "raised"
              THEN /\ pl_results' = Append(pl_results,
                        [id |-> paper.id, result |-> MsgProcessingError(paper.id, ErrorText)])
                   /\ UNCHANGED pl_succeeded
              ELSE LET r == download_paper_pdf(paper, outcome)
                   IN  /\ pl_results' = Append(pl_results, [id |-> paper.id, result |-> r.result])
                       /\ pl_succeeded' = IF r.success THEN pl_succeeded \cup {paper.id}
                                          ELSE pl_succeeded
  /\ UNCHANGED <<pl_pc, pl_papers, pl_successful>>

\* main.py lines 84-101: without an AI configuration the run ends; otherwise
\* the results are filtered into successful_downloads
SelectSuccessful(has_ai_config) ==
  /\ pl_pc = "download"
  /\ Len(pl_results) = Len(pl_papers)
  /\ IF ~has_ai_config
       THEN /\ pl_pc' = "failed"
            /\ UNCHANGED pl_successful
       ELSE LET kept == SelectSeq(pl_results, LAMBDA r : IsSuccessfulResult(r.result))
                successful_downloads ==
                  [k \in 1..Len(kept) |->
                     [paper |-> CHOOSE p \in Range(pl_papers) : p.id = kept[k].id,
                      path |-> kept[k].result]]
            IN  /\ pl_successful' = successful_downloads
                /\ pl_pc' = IF successful_downloads = <<>> THEN "failed" ELSE "summarise"
  /\ UNCHANGED <<pl_papers, pl_results, pl_succeeded>>

PipelineNext ==
  \/ /\ NoPapers
     /\ UNCHANGED <<base_vars, oq_vars, kw_vars, dl_vars>>
  \/ /\ \E outcome \in {"no_link", "downloaded", "retries_exhausted", "unexpected_error",
                        "raised"} : BatchDownloadPaper(outcome)
     /\ UNCHANGED <<base_vars, oq_vars, kw_vars, dl_vars>>
  \/ /\ \E has_ai_config \in BOOLEAN : SelectSuccessful(has_ai_config)
     /\ UNCHANGED <<base_vars, oq_vars, kw_vars, dl_vars>>

SpecPipeline == PipelineInit /\ [][PipelineNext]_vars

-----------------------------------------------------------------------------
(* download_paper_pdf (src/arxiv_process.py): calls in sequence for one     *)
(* paper that has a pdf_link                                                *)

MaxDownloadCalls == 3    \* calls made for the paper

max_retries == 2
MinPdfBytes == 1000      \* `filepath.stat().st_size < 1000`
ChunkBytes == 8192       \* iter_content(chunk_size=8192)

\* sizes of the response bodies
BodySizes == {0, MinPdfBytes - 1, MinPdfBytes, ChunkBytes, 2 * ChunkBytes + 1}

\* What one turn of the retry loop can meet:
\*   request_error  requests.get or raise_for_status raises (Timeout or
\*                  another RequestException)
\*   not_pdf        the reply is not taken for a PDF
\*   body           the whole body, of `size` bytes, is written
\*   stream_broken  iter_content raises a RequestException after `size` bytes
\*                  were written
\*   write_error    f.write raises (an OSError) after `size` bytes were written
DownloadReplies ==
  {[kind |-> k, size |-> 0] : k \in {"request_error", "not_pdf"}}
    \cup {[kind |-> "body", size |-> n] : n \in BodySizes}
    \cup {[kind |-> k, size |-> n] :
            k \in {"stream_broken", "write_error"}, n \in {0, ChunkBytes, 2 * ChunkBytes}}

DownloadInit ==
  /\ BaseIdle
  /\ QueryIdle /\ KeywordsIdle /\ PipelineIdle
  /\ dl_pc = "idle"
  /\ dl_retry = 0
  /\ dl_file = NoFile
  /\ dl_returns = <<>>

Returned(success, file) == Append(dl_returns, [success |-> success, file |-> file])

\* lines 98-117: the except clauses leave the file as it is
FileAfterFailure(file) == file

\* lines 46-57: an existing file is a success; otherwise the retry loop starts
CallDownload ==
  /\ dl_pc = "idle"
  /\ Len(dl_returns) < MaxDownloadCalls
  /\ IF dl_file.exists
       THEN /\ dl_returns' = Returned(TRUE, dl_file)
            /\ UNCHANGED <<dl_pc, dl_retry>>
       ELSE /\ dl_pc' = "attempt"
            /\ dl_retry' = 0
            /\ UNCHANGED dl_returns
  /\ UNCHANGED dl_file

\* lines 59-122: one turn of `while current_retry < max_retries`, and the
\* failure return when it was the last
Attempt(reply) ==
  /\ dl_pc = "attempt"
  /\ dl_retry < max_retries
  /\ LET written == [exists |-> TRUE, size |-> reply.size,
                     complete |-> reply.kind = "body"]
         file == CASE reply.kind \in {"request_error", "not_pdf"} -> dl_file
                   [] reply.kind = "body" ->
                        IF reply.size < MinPdfBytes THEN NoFile ELSE written
                   [] reply.kind \in {"stream_broken", "write_error"} ->
                        FileAfterFailure(written)
         success == reply.kind = "body" /\ reply.size >= MinPdfBytes
         gives_up == reply.kind = "write_error"
     IN  /\ dl_file' = file
         /\ IF success
              THEN /\ dl_returns' = Returned(TRUE, file)
                   /\ dl_pc' = "idle"
                   /\ UNCHANGED dl_retry
            ELSE IF gives_up \/ dl_retry + 1 >= max_retries
              THEN /\ dl_returns' = Returned(FALSE, file)
                   /\ dl_pc' = "idle"
                   /\ dl_retry' = IF gives_up THEN dl_retry ELSE dl_retry + 1
              ELSE /\ dl_retry' = dl_retry + 1
                   /\ UNCHANGED <<dl_pc, dl_returns>>

DownloadNext ==
  \/ /\ CallDownload
     /\ UNCHANGED <<base_vars, oq_vars, kw_vars, pl_vars>>
  \/ /\ \E reply \in DownloadReplies : Attempt(reply)
     /\ UNCHANGED <<base_vars, oq_vars, kw_vars, pl_vars>>

SpecDownload == DownloadInit /\ [][DownloadNext]_vars

-----------------------------------------------------------------------------
(* The executor on its own: one call on any reply                          *)

ExecuteSearch(response) ==
  /\ last_exec = NoExec
  /\ LET exec == _execute_search(response)
     IN  last_exec' = [response |-> response.kind, entries |-> response.entries,
                       outcome |-> exec.outcome, papers |-> exec.papers]
  /\ current_user_agent' = _get_next_user_agent(current_user_agent).next
  /\ UNCHANGED <<pc, topic, max_results, strategy, min_relevance, strategies,
                 all_papers, result, calls, returned, caught>>
  /\ UNCHANGED <<score_vars, other_vars>>

ExecResponses == Responses(ExecEntries)

ExecNext == \E response \in ExecResponses : ExecuteSearch(response)

SpecExec == Init /\ [][ExecNext]_vars

-----------------------------------------------------------------------------
(* Properties of the ranked result                                         *)

PairOf(paper) == [id |-> paper.id, score |-> paper.relevance_score]
Ids(papers) == {papers[i].id : i \in 1..Len(papers)}
Positions(papers, id) == {i \in 1..Len(papers) : papers[i].id = id}
QualifyingPairs(pairs) == {x \in pairs : Qualifies(x.score, min_relevance)}
CalledStrategies == {calls[i].strategy : i \in 1..Len(calls)}
CaughtStrategies == {caught[i].strategy : i \in 1..Len(caught)}
ScoreEq(a, b) == a.num * b.den = b.num * a.den

\* C1: the list returned by search_papers_with_relevance holds no two records
\* with the same id.
C1_DedupInvariant ==
  pc = "done" =>
    \A i, j \in 1..Len(result) : i # j => result[i].id # result[j].id

\* The working set held the same id twice and the id is in the result.
C1_Witness ==
  /\ pc = "done"
  /\ \E i, j \in 1..Len(all_papers) :
       /\ i # j
       /\ all_papers[i].id = all_papers[j].id
       /\ all_papers[i].id \in Ids(result)

\* C2: the relevance scores are non-increasing along the returned list.
C2_SortInvariant ==
  pc = "done" =>
    \A i \in 1..(Len(result) - 1) :
      ScoreGE(result[i].relevance_score, result[i + 1].relevance_score)

\* The working set was in ascending order and came back reordered.
C2_Witness ==
  /\ pc = "done"
  /\ Len(all_papers) >= 2
  /\ Len(result) >= 2
  /\ Before(all_papers[2].relevance_score, all_papers[1].relevance_score)
  /\ Before(result[1].relevance_score, result[2].relevance_score)

\* C3: for every max_results >= 0 and every number of candidates, at most
\* max_results records are returned.
C3_Truncation == pc = "done" => Len(result) <= max_results

\* More than 2 * max_results distinct candidates qualified and were cut.
C3_Witness ==
  /\ pc = "done"
  /\ max_results >= 1
  /\ Cardinality(Ids(all_papers)) > 2 * max_results
  /\ Len(result) = max_results

StrategyIndex(s) == CHOOSE k \in 1..Len(StrategyList(strategy)) : StrategyList(strategy)[k] = s
ResultPairs == {PairOf(result[i]) : i \in 1..Len(result)}
DistinctIds(pairs) == \A x, y \in pairs : x.id = y.id => x = y
Higher(a, b) == IF ScoreGE(a, b) THEN a ELSE b

\* Two different executor calls of this search returned the pairs x and y:
\* the same id with different scores.
SameIdTwoStrategies(x, y) ==
  /\ x.id = y.id
  /\ ~ ScoreEq(x.score, y.score)
  /\ \E i, j \in 1..Len(returned) : i # j /\ x \in returned[i] /\ y \in returned[j]

AllReturnedPairs == UNION {returned[i] : i \in 1..Len(returned)}

C4_EscalationScenario ==
  (/\ pc = "done"
   /\ strategy = "comprehensive"
   /\ Len(calls) >= 2
   /\ calls[1].strategy = "comprehensive"
   /\ calls[2].strategy = "balanced"
   /\ QualifyingPairs(returned[1]) = {}
   /\ QualifyingPairs(returned[2]) # {})
  => /\ "precise" \notin CalledStrategies
     /\ ResultPairs \subseteq QualifyingPairs(returned[2])
     /\ (/\ DistinctIds(QualifyingPairs(returned[2]))
         /\ Cardinality(QualifyingPairs(returned[2])) <= max_results)
        => /\ ResultPairs = QualifyingPairs(returned[2])
           /\ Len(result) = Cardinality(QualifyingPairs(returned[2]))

\* C4: the executor is invoked for a strategy only while the working set is
\* still empty; and when the comprehensive query yields no qualifying
\* candidate and the balanced query yields some, exactly the balanced
\* results are returned and the precise query is never issued.
C4_StopAtFirstSuccess ==
  /\ [][Len(calls') > Len(calls) => all_papers = <<>>]_vars
  /\ [] C4_EscalationScenario

\* comprehensive returned candidates of which none qualified, balanced
\* yielded 3, and those 3 are the result
C4_Witness ==
  /\ pc = "done"
  /\ strategy = "comprehensive"
  /\ Len(calls) = 2
  /\ calls[1].strategy = "comprehensive"
  /\ calls[2].strategy = "balanced"
  /\ returned[1] # {}
  /\ QualifyingPairs(returned[1]) = {}
  /\ Cardinality(QualifyingPairs(returned[2])) = 3
  /\ Len(result) = 3

\* C5 as stated: whenever two strategies both returned a record with the
\* same id but different scores, the result holds exactly one entry for that
\* id and its score is the higher of the two.
C5_DuplicateRetentionAsStated ==
  pc = "done" =>
    \A x, y \in AllReturnedPairs :
      SameIdTwoStrategies(x, y) =>
        /\ Cardinality(Positions(result, x.id)) = 1
        /\ \A k \in Positions(result, x.id) :
             ScoreEq(result[k].relevance_score, Higher(x.score, y.score))

\* C5 (amended): whenever two strategies both returned a record with the
\* same id but different scores, the result holds at most one entry for that
\* id, and the score of that entry is the highest among the records with
\* that id that the last strategy tried returned with a score that reaches
\* min_relevance (there is no entry when there is no such record).
C5_DuplicateRetention ==
  pc = "done" =>
    \A x, y \in AllReturnedPairs :
      SameIdTwoStrategies(x, y) =>
        LET same == {z \in QualifyingPairs(returned[Len(returned)]) : z.id = x.id}
        IN  /\ Cardinality(Positions(result, x.id)) <= 1
            /\ \A k \in Positions(result, x.id) :
                 /\ \E z \in same : ScoreEq(result[k].relevance_score, z.score)
                 /\ \A z \in same : ScoreGE(result[k].relevance_score, z.score)

\* an earlier strategy returned the id below the threshold, the last one
\* returned it twice above it with different scores, and the id is in the
\* result
C5_Witness ==
  /\ pc = "done"
  /\ \E x, y \in AllReturnedPairs :
       /\ SameIdTwoStrategies(x, y)
       /\ Positions(result, x.id) # {}
       /\ \E u, v \in QualifyingPairs(returned[Len(returned)]) :
            u.id = x.id /\ v.id = x.id /\ ~ ScoreEq(u.score, v.score)

\* C6: for every paper and topic the score s satisfies 0.0 <= s <= 1.0.
C6_ScoreBounds ==
  sc_score # NoScore =>
    /\ sc_score.den > 0
    /\ 0 <= sc_score.num
    /\ sc_score.num <= sc_score.den

\* a paper dated in the future whose full overlap is clamped to 1.0
C6_Witness ==
  /\ sc_score # NoScore
  /\ sc_score.num = sc_score.den
  /\ Strptime(First10(sc_paper.published)) # NoDate
  /\ Strptime(First10(sc_paper.published)) > sc_today
  /\ _extract_keywords(sc_topic) # <<>>

\* C7: search_papers_with_relevance never raises: an exception inside one
\* strategy is caught and the next strategy is tried, and with no qualifying
\* candidate after the last strategy the empty list is returned.
C7_NeverRaises ==
  /\ pc # "raised"
  /\ (pc = "done" /\ all_papers = <<>>) =>
       /\ result = <<>>
       /\ CalledStrategies \cup CaughtStrategies = Range(StrategyList(strategy))
  /\ pc \in {"rank", "done"} =>
       \A i \in 1..Len(caught) :
         LET k == StrategyIndex(caught[i].strategy)
         IN  k < Len(StrategyList(strategy)) =>
               StrategyList(strategy)[k + 1] \in CalledStrategies \cup CaughtStrategies

\* a strategy raised and a later one supplied the result
C7_Witness ==
  /\ pc = "done"
  /\ caught # <<>>
  /\ result # <<>>

\* C8: _execute_search never raises; on a transport error, a non-2xx status,
\* an unparsable reply, an API error element or a reply without entries it
\* returns the empty list.
C8_ExecutorNeverRaises ==
  last_exec # NoExec =>
    /\ last_exec.outcome = "returned"
    /\ (last_exec.response # "ok" \/ last_exec.entries = <<>>) => last_exec.papers = <<>>

\* a reply that parsed as XML and carried an error element
C8_Witness ==
  /\ last_exec.response = "api_error"
  /\ last_exec.outcome = "returned"
  /\ last_exec.papers = <<>>

\* C9: every record the parser produces has a non-empty id and a non-empty
\* title; an entry for which either would be empty is skipped.
C9_ParsedRecordsNonEmpty ==
  \A i \in 1..Len(last_exec.papers) :
    /\ last_exec.papers[i].id # <<>>
    /\ last_exec.papers[i].title # <<>>

NoKeywordTopics == {TopicEmpty, TopicStopWords, TopicShortWords}

\* C10: for a topic without extractable keywords (empty, only stop-words,
\* digits or words shorter than 3 letters) the score is exactly 0.5,
\* whatever the paper.
C10_NeutralScore ==
  (sc_score # NoScore /\ (sc_topic \in NoKeywordTopics \/ _extract_keywords(sc_topic) = <<>>))
    => sc_score.num * 2 = sc_score.den

\* a topic of digits and short words, scored against a paper that overlaps
\* with the relevant categories and is dated today
C10_Witness ==
  /\ sc_score # NoScore
  /\ sc_topic = TopicShortWords
  /\ sc_paper.categories # <<>>
  /\ sc_paper.published = DateToday
  /\ sc_score.num * 2 = sc_score.den

-----------------------------------------------------------------------------
TopicQuantumGravitySimulation == JoinWords(<<WordQuantum, WordGravity, WordSimulation>>)
TopicGravitySimulation == JoinWords(<<WordGravity, WordSimulation>>)

-----------------------------------------------------------------------------
-----------------------------------------------------------------------------
QueriesBy(who) == {i \in 1..Len(lg_queries) : lg_queries[i].by = who}

\* C15: with sort_by = "relevance" search_papers sends no request of its own
\* and hands over to search_papers_with_relevance, whose list it returns; with
\* any other sort_by the orchestrator is not run, the first request is the
\* direct query, the all:"topic" query follows it at most once, and only when
\* the first attempt had no record.
C15_LegacySearch ==
  /\ lg_sort_by = "relevance" /\ lg_pc # "idle" =>
       /\ lg_queries = <<>>
       /\ pc # "idle"
       /\ strategy = "comprehensive" /\ topic = lg_topic /\ max_results = lg_max_results
       /\ lg_pc = "done" => lg_result = result
  /\ lg_sort_by # "relevance" =>
       /\ pc = "idle" /\ calls = <<>>
       /\ Cardinality(QueriesBy("search_papers")) <= 1
       /\ Cardinality(QueriesBy("_fallback_search")) <= 1
       /\ lg_pc \in {"fallback", "done"} =>
            /\ QueriesBy("search_papers") = {1}
            /\ lg_queries[1].max_results = 2 * lg_max_results
       /\ QueriesBy("_fallback_search") # {} =>
            /\ QueriesBy("_fallback_search") = {2}
            /\ lg_queries[2].search_query = SimpleQuery(lg_topic)
            /\ lg_first = <<>>
       /\ lg_pc = "fallback" => lg_first = <<>>

C15_Witness ==
  /\ lg_sort_by # "relevance"
  /\ lg_pc = "done"
  /\ Len(lg_queries) = 2
  /\ lg_result # <<>>

-----------------------------------------------------------------------------
\* The terms of the weighted sum for the scored pair, over the common
\* denominator 10 * 365 * |K| * |R| (weights in tenths, days in 365ths).
C13_K == Range(_extract_keywords(sc_topic))
C13_R == _get_relevant_categories(sc_topic)
C13_Parses == Strptime(First10(sc_paper.published)) # NoDate
C13_Days == sc_today - Strptime(First10(sc_paper.published))
C13_Recency == IF C13_Parses /\ C13_Days < 365 THEN 365 - C13_Days ELSE 0
C13_Den == 10 * 365 * Cardinality(C13_K) * Cardinality(C13_R)
C13_TitleTerm ==
  4 * Cardinality(C13_K \cap Range(_extract_keywords(sc_paper.title)))
    * 365 * Cardinality(C13_R)
C13_SummaryTerm ==
  3 * Cardinality(C13_K \cap Range(_extract_keywords(sc_paper.summary)))
    * 365 * Cardinality(C13_R)
C13_CategoryTerm ==
  2 * Cardinality(Range(sc_paper.categories) \cap C13_R) * 365 * Cardinality(C13_K)
C13_RecencyTerm == 1 * C13_Recency * Cardinality(C13_K) * Cardinality(C13_R)
C13_Sum == C13_TitleTerm + C13_SummaryTerm + C13_CategoryTerm + C13_RecencyTerm

\* C13: for a topic with keywords the score is min(1, 0.4 * title overlap
\* + 0.3 * summary overlap + 0.2 * category overlap + 0.1 * max(0, 1 - days /
\* 365)), the recency term being 0 when the published date does not parse;
\* the weights 0.4, 0.3, 0.2, 0.1 add up to 1.
C13_WeightedSum ==
  /\ 4 + 3 + 2 + 1 = 10
  /\ (sc_score # NoScore /\ C13_K # {}) =>
        /\ C13_Den > 0
        /\ sc_score.num * C13_Den
             = sc_score.den * (IF C13_Sum > C13_Den THEN C13_Den ELSE C13_Sum)
        /\ ~C13_Parses => C13_RecencyTerm = 0

C13_Witness ==
  /\ sc_score # NoScore
  /\ C13_K # {}
  /\ C13_TitleTerm > 0 /\ C13_SummaryTerm > 0 /\ C13_CategoryTerm > 0
  /\ C13_RecencyTerm > 0
  /\ C13_Sum < C13_Den
  /\ sc_score.num * C13_Den = sc_score.den * C13_Sum

-----------------------------------------------------------------------------
C14_Scenario ==
  /\ Len(cmp_scores) = 2
  /\ cmp_scores[1] # NoScore /\ cmp_scores[2] # NoScore
  /\ cmp_topic = TopicAttentionMechanismTransformer
  /\ cmp_papers[1].title = TitleAttentionIsAllYouNeed
  /\ cmp_papers[2].title = TitleSurveyDatabaseIndexing

StrictlyHigher(a, b) == a.num * b.den > b.num * a.den

-----------------------------------------------------------------------------
\* C16: with several threads calling _get_next_user_agent on one object, no
\* increment is lost: the calls are handed the agents 0, 1, 2, 0, ... in
\* strict rotation, and whenever no call is in progress the counter equals
\* the number of completed calls modulo 3.
C16_ThreadSafeCounter ==
  /\ \A k \in 1..Len(ua_handed) : ua_handed[k] = (k - 1) % user_agents
  /\ (\A th \in DOMAIN ua_pc : ua_pc[th] = "idle") =>
        current_user_agent = ua_completed % user_agents

-----------------------------------------------------------------------------
\* C17: once the loop of run_scheduler is running, the scheduled minute is
\* never missed: when that minute is over, scheduled_task has been started
\* in it.
C17_NeverMissesScheduledMinute ==
  (sch_pc # "off" /\ MinuteOf(sch_now) > ScheduledMinute) =>
     \E t \in sch_triggered : MinuteOf(t) = ScheduledMinute

-----------------------------------------------------------------------------
C18_Order ==
  IF strategy = "comprehensive" THEN <<"comprehensive", "balanced", "precise">>
  ELSE <<strategy>>

\* strategies whose try block raised before _execute_search was entered
C18_RaisedBeforeCall ==
  {caught[i].strategy : i \in {j \in 1..Len(caught) : caught[j].at \in {"build", "execute"}}}

\* C18: the strategies are tried in the order [strategy], balanced, precise
\* (the last two for comprehensive only); the executor calls made so far are,
\* in order, one call per tried strategy (none for a strategy whose try block
\* raised before the call), each asking for 2 * max_results candidates; hence
\* at most 3 calls, and at most 1 for a strategy other than comprehensive.
C18_StrategyOrder ==
  pc # "idle" =>
    \E k \in 0..Len(C18_Order) :
       /\ strategies = SubSeq(C18_Order, k + 1, Len(C18_Order))
       /\ [i \in 1..Len(calls) |-> calls[i].strategy]
            = SelectSeq(SubSeq(C18_Order, 1, k), LAMBDA s : s \notin C18_RaisedBeforeCall)
       /\ C18_RaisedBeforeCall = {} => Len(calls) = k
       /\ \A i \in 1..Len(calls) : calls[i].max_results = 2 * max_results
       /\ Len(calls) <= 3
       /\ strategy # "comprehensive" => Len(calls) <= 1

C18_Witness ==
  /\ pc = "done"
  /\ strategy = "comprehensive"
  /\ max_results = 2
  /\ caught = <<>>
  /\ calls = <<[strategy |-> "comprehensive", max_results |-> 4],
               [strategy |-> "balanced", max_results |-> 4],
               [strategy |-> "precise", max_results |-> 4]>>
  /\ result # <<>>

-----------------------------------------------------------------------------
\* the scorer's value for a record of the working set or of the result
C19_ScorerValue(paper) ==
  RelevanceScore([paper EXCEPT !.relevance_score = ZeroScore], topic, Today)

C19_Scored(papers) ==
  \A i \in 1..Len(papers) :
     /\ ScoreEq(papers[i].relevance_score, C19_ScorerValue(papers[i]))
     /\ papers[i].relevance_score.num * 100 >= min_relevance * papers[i].relevance_score.den

\* C19: every record of the working set and of the returned list carries the
\* score the scorer gives it for the topic, and that score is >= min_relevance.
C19_MinRelevance == C19_Scored(all_papers) /\ C19_Scored(result)

\* a candidate below min_relevance was returned by the executor and left out
C19_Witness ==
  /\ pc = "done"
  /\ result # <<>>
  /\ \E x \in AllReturnedPairs :
        /\ x.score.num * 100 < min_relevance * x.score.den
        /\ x.id \notin {result[i].id : i \in 1..Len(result)}

-----------------------------------------------------------------------------
C20_WithId(id) == {j \in 1..Len(all_papers) : all_papers[j].id = id}

\* C20: the record the dedup step keeps for an id is a record of the working
\* set with that id whose score is the maximum among them; every id of the
\* working set is kept unless the list is cut at max_results.
C20_DedupKeepsMax ==
  pc = "done" =>
    /\ \A i \in 1..Len(result) :
          /\ \E j \in C20_WithId(result[i].id) : all_papers[j] = result[i]
          /\ \A j \in C20_WithId(result[i].id) :
                ScoreGE(result[i].relevance_score, all_papers[j].relevance_score)
    /\ Len(result) < max_results =>
          Ids(all_papers) = Ids(result)

\* the working set held an id twice, the lower score first, and the result
\* has the record with the higher one
C20_Witness ==
  /\ pc = "done"
  /\ \E i \in 1..Len(result) :
       \E j, k \in C20_WithId(result[i].id) :
          /\ j < k
          /\ ~ ScoreGE(all_papers[j].relevance_score, all_papers[k].relevance_score)
          /\ result[i] = all_papers[k]

-----------------------------------------------------------------------------
\* the number of whitespace-separated words of text: the positions where a
\* word starts
WordCount(text) ==
  Cardinality({i \in 1..Len(text) :
                 /\ text[i] \notin Whitespace
                 /\ (i = 1 \/ text[i - 1] \in Whitespace)})

QueryFields(q) == [i \in 1..Len(q.parts) |-> q.parts[i].field]

ClauseRank(field) == CASE field = "ti" -> 1 [] field = "abs" -> 2 [] field = "cat" -> 3
                       [] OTHER -> 0

ComprehensiveDone == oq_query # NoQuery /\ oq_strategy = "comprehensive"

\* C21: for the comprehensive strategy the query has a title-phrase clause
\* (on the stripped topic) exactly when the stripped topic has at most three
\* whitespace-separated words, and its clauses are title, abstract, category
\* in that order, each at most once, joined by AND when there are several.
C21_TitleClauseAndOrder ==
  ComprehensiveDone =>
    LET fields == QueryFields(oq_query)
    IN  /\ ("ti" \in Range(fields)) <=> (WordCount(Strip(oq_topic)) <= 3)
        /\ \A i \in 1..Len(fields) :
              /\ fields[i] = "ti" => oq_query.parts[i].terms = <<Strip(oq_topic)>>
              /\ \A j \in 1..Len(fields) :
                    i < j => /\ ClauseRank(fields[i]) > 0
                             /\ ClauseRank(fields[i]) < ClauseRank(fields[j])
        /\ Len(fields) > 1 => oq_query.joiner = " AND "

\* a three-word topic gave the three clauses in order
C21_Witness ==
  /\ ComprehensiveDone
  /\ WordCount(Strip(oq_topic)) = 3
  /\ QueryFields(oq_query) = <<"ti", "abs", "cat">>
  /\ oq_query.joiner = " AND "

\* a four-word topic gave a query without a title clause
C21_WitnessFourWords ==
  /\ ComprehensiveDone
  /\ WordCount(Strip(oq_topic)) = 4
  /\ "ti" \notin Range(QueryFields(oq_query))

-----------------------------------------------------------------------------
QualifyingTerms(t) == {term \in _expand_query_terms(Strip(t)) : Len(term) > 3}

AbstractClauses(q) == {i \in 1..Len(q.parts) : q.parts[i].field = "abs"}

\* C22: for the comprehensive strategy the abstract clause holds at most five
\* terms, each an expanded term longer than three characters, and the query
\* has an abstract clause whenever some expanded term is longer than three
\* characters.
C22_AbstractClauseWheneverQualifies ==
  ComprehensiveDone =>
    /\ \A i \in AbstractClauses(oq_query) :
          /\ Len(oq_query.parts[i].terms) \in 1..5
          /\ Range(oq_query.parts[i].terms) \subseteq QualifyingTerms(oq_topic)
    /\ QualifyingTerms(oq_topic) # {} => AbstractClauses(oq_query) # {}

-----------------------------------------------------------------------------
C23_Letters == LowerSet

\* the maximal runs of text over the characters of `chars`, as pairs of their
\* first and last position
C23_Runs(text, chars) ==
  {r \in (1..Len(text)) \X (1..Len(text)) :
     /\ r[1] <= r[2]
     /\ \A k \in r[1]..r[2] : text[k] \in chars
     /\ r[1] = 1 \/ text[r[1] - 1] \notin chars
     /\ r[2] = Len(text) \/ text[r[2] + 1] \notin chars}

\* of these, the runs of three or more letters a-z that are not stop words
C23_Kept(text, chars) ==
  {r \in C23_Runs(text, chars) :
     /\ r[2] - r[1] + 1 >= 3
     /\ \A k \in r[1]..r[2] : text[k] \in C23_Letters
     /\ SubSeq(text, r[1], r[2]) \notin stop_words}

\* tokens is the list, left to right, of the kept runs of text
C23_IsListOf(tokens, text, chars) ==
  LET kept == C23_Kept(text, chars)
  IN  /\ Len(tokens) = Cardinality(kept)
      /\ \A r \in kept :
            tokens[Cardinality({q \in kept : q[1] <= r[1]})] = SubSeq(text, r[1], r[2])

\* C23 (amended): the keywords of a text are, left to right, the maximal runs
\* of word characters (letters, digits, underscore, ideographs) of the
\* lower-cased text that consist of three or more letters a-z only and are
\* not stop words; a run of letters that touches a digit, an underscore or
\* an ideograph is not returned, and the empty text has no keywords.
C23_KeywordsAreWholeWords ==
  kw_pc = "done" =>
    /\ C23_IsListOf(kw_tokens, Lower(kw_text), WordChars)
    /\ \A i \in 1..Len(kw_tokens) :
          /\ Len(kw_tokens[i]) >= 3
          /\ kw_tokens[i] \notin stop_words
          /\ \A k \in 1..Len(kw_tokens[i]) : kw_tokens[i][k] \in C23_Letters
    /\ kw_text = <<>> => kw_tokens = <<>>

\* C23 as stated: the keywords are the maximal runs of three or more letters
\* of the lower-cased text that are not stop words, a run next to a digit or
\* an underscore included.
C23_KeywordsAreLetterRuns ==
  kw_pc = "done" => C23_IsListOf(kw_tokens, Lower(kw_text), C23_Letters)

\* a text with a word of its own and two letter runs that touch an
\* underscore or a digit: only the word is returned
C23_Witness ==
  /\ kw_pc = "done"
  /\ kw_text = TitleQuantum
  /\ Len(kw_tokens) = 1
  /\ Cardinality(C23_Kept(Lower(kw_text), C23_Letters)) > 1

-----------------------------------------------------------------------------
\* the table phrases that occur in the lower-cased topic, found by comparing
\* every slice of the topic with the phrase
C24_Phrases(t) ==
  {k \in 1..Len(category_map) :
     \E i \in 1..(Len(t) - Len(category_map[k].key) + 1) :
        SubSeq(Lower(t), i, i + Len(category_map[k].key) - 1) = category_map[k].key}

\* C24: a category is returned exactly when it is in the list of a table
\* phrase that occurs in the lower-cased topic or, when no phrase occurs, when
\* it is one of cs.AI, cs.LG, cs.CL, cs.CV; the returned set is never empty.
C24_UnionOrDefault ==
  cat_result # NoCats =>
    LET found == C24_Phrases(cat_topic)
    IN  /\ \A c \in cat_result :
              \/ \E k \in found : \E n \in 1..Len(category_map[k].categories) :
                    category_map[k].categories[n] = c
              \/ found = {} /\ c \in {"cs.AI", "cs.LG", "cs.CL", "cs.CV"}
        /\ \A k \in found : \A n \in 1..Len(category_map[k].categories) :
              category_map[k].categories[n] \in cat_result
        /\ found = {} => \A c \in {"cs.AI", "cs.LG", "cs.CL", "cs.CV"} : c \in cat_result
        /\ cat_result # {}

\* a topic with two table phrases whose lists differ got the categories of
\* both
C24_Witness ==
  /\ cat_result # NoCats
  /\ \E j, k \in C24_Phrases(cat_topic) :
        /\ Range(category_map[j].categories) \ Range(category_map[k].categories) # {}
        /\ Range(category_map[k].categories) \ Range(category_map[j].categories) # {}
        /\ Range(category_map[j].categories) \cup Range(category_map[k].categories)
             \subseteq cat_result

\* a topic without a table phrase got the default set
C24_WitnessDefault ==
  /\ cat_result = {"cs.AI", "cs.LG", "cs.CL", "cs.CV"}
  /\ C24_Phrases(cat_topic) = {}
  /\ cat_topic # <<>>

-----------------------------------------------------------------------------
\* the entries of the reply that have a title and an id with text
C25_Survivors == SelectSeq(last_exec.entries, LAMBDA e : HasText(e.title) /\ HasText(e.id))

\* C25: the record of an entry whose published element has text carries that
\* text as published, the record of an entry whose summary element has text
\* carries the stripped, whitespace-collapsed summary text, and updated is
\* the text of the updated element when it has one and equals published
\* otherwise.
C25_FieldsFromEntry ==
  (last_exec.response = "ok" /\ last_exec.outcome = "returned") =>
    /\ Len(last_exec.papers) = Len(C25_Survivors)
    /\ \A i \in 1..Len(last_exec.papers) :
          LET e == C25_Survivors[i]
              paper == last_exec.papers[i]
          IN  /\ HasText(e.published) => paper.published = e.published.text
              /\ HasText(e.summary) =>
                    paper.summary = CollapseWhitespace(Strip(e.summary.text))
              /\ paper.updated = IF HasText(e.updated) THEN e.updated.text
                                 ELSE paper.published

-----------------------------------------------------------------------------
\* C27: for a sort_by other than "relevance", search_papers returns at most
\* max_results records, whether the list comes from its own request or from
\* _fallback_search.
C27_AtMostMaxResults ==
  (lg_pc = "done" /\ lg_sort_by # "relevance") => Len(lg_result) <= lg_max_results

-----------------------------------------------------------------------------
\* C28: the score exceeds the title, summary and category terms by at most
\* the recency weight 0.1, whatever the published date, so a paper without
\* title, summary and category overlap scores at most 0.1.
C28_RecencyAtMostWeight ==
  (sc_score # NoScore /\ C13_K # {}) =>
    /\ sc_score.num * C13_Den
         <= sc_score.den * (C13_TitleTerm + C13_SummaryTerm + C13_CategoryTerm
                              + 365 * Cardinality(C13_K) * Cardinality(C13_R))
    /\ (C13_TitleTerm = 0 /\ C13_SummaryTerm = 0 /\ C13_CategoryTerm = 0) =>
          sc_score.num * 10 <= sc_score.den

-----------------------------------------------------------------------------
CategoryClauses(q) == {i \in 1..Len(q.parts) : q.parts[i].field = "cat"}

\* C26: for the comprehensive strategy the query has one category clause, of
\* one to three different categories taken from the categories the lookup
\* returns for the stripped topic, and it is never the all-fields query on
\* the topic.
C26_CategoryClauseAlways ==
  ComprehensiveDone =>
    /\ Cardinality(CategoryClauses(oq_query)) = 1
    /\ \A i \in CategoryClauses(oq_query) :
          LET cats == oq_query.parts[i].cats
          IN  /\ Len(cats) \in 1..3
              /\ Range(cats) \subseteq _get_relevant_categories(Strip(oq_topic))
              /\ Cardinality(Range(cats)) = Len(cats)
    /\ \A i \in 1..Len(oq_query.parts) : oq_query.parts[i].field # "all"

\* a topic of more than three words whose five main terms were all short got
\* a query made of the category clause alone
C26_Witness ==
  /\ ComprehensiveDone
  /\ QueryFields(oq_query) = <<"cat">>
  /\ Len(oq_query.parts[1].cats) = 3

-----------------------------------------------------------------------------
\* C29: every (paper, path) pair handed to summary generation is a paper for
\* which download_paper_pdf returned success, with the path of its PDF; a
\* paper whose download failed (no PDF link, retries used up, unexpected
\* download error, processing error) is not in successful_downloads.
C29_OnlyDownloadedPapers ==
  pl_pc = "summarise" =>
    \A k \in 1..Len(pl_successful) :
       /\ pl_successful[k].paper.id \in pl_succeeded
       /\ pl_successful[k].path = PdfPath(pl_successful[k].paper.id)

-----------------------------------------------------------------------------
\* C30: when a call returns success the file at the returned path holds a
\* whole response body of at least 1000 bytes, and when a call returns
\* failure there is no file for the paper in the data directory.
C30_SuccessMeansWholeFile ==
  \A i \in 1..Len(dl_returns) :
     IF dl_returns[i].success
       THEN /\ dl_returns[i].file.exists
            /\ dl_returns[i].file.complete
            /\ dl_returns[i].file.size >= 1000
       ELSE ~ dl_returns[i].file.exists


=============================================================================
